---- MODULE Spec2Model ----
(***************************************************************************)
(* Analytic eigenvalue / singular value kernel of DenseMatrix              *)
(* (linalg/densemat.cpp): GetScalingFactor, Eigenvalues2S, Eigensystem2S,  *)
(* vec_normalize3, KernelVector2G, KernelVector3G_aux, KernelVector3S,     *)
(* Reduce3S, DenseMatrix::CalcSingularvalue, DenseMatrix::CalcEigenvalues, *)
(* DenseMatrix::Rank.                                                      *)
(*                                                                         *)
(* A double is modelled as a binary floating-point number <<m, e>> of      *)
(* value m * 2^e with a mantissa of MantissaBits bits; every arithmetic    *)
(* operation is rounded to nearest, ties to even, as IEEE-754 does.  The   *)
(* exponent is an unbounded integer: overflow to infinity, underflow and   *)
(* the sign of zero are outside the model, and the inputs are chosen so    *)
(* that no result leaves the range of a double.                            *)
(***************************************************************************)
EXTENDS Integers, Sequences, FiniteSets, TLC

\* number of mantissa bits of the modelled double (53 in the build)
MantissaBits == 8

\* numeric_limits<double>::max_exponent
max_exponent == 1024

\* numeric_limits<double>::radix
radix == 2

(***************************************************************************)
(* Floating-point arithmetic                                               *)
(***************************************************************************)
Abs(n) == IF n < 0 THEN -n ELSE n

Sign(n) == IF n < 0 THEN -1 ELSE IF n > 0 THEN 1 ELSE 0

RECURSIVE BitLen(_)
BitLen(a) == IF a = 0 THEN 0 ELSE 1 + BitLen(a \div 2)

Zero == <<0, 0>>

\* the double nearest to n * 2^e (ties to even)
Norm(n, e) ==
  IF n = 0 THEN Zero
  ELSE LET Rounded(sh, q2) ==
             IF q2 = 2^MantissaBits
             THEN <<Sign(n) * 2^(MantissaBits - 1), e + sh + 1>>
             ELSE <<Sign(n) * q2, e + sh>>
           Cut(sh, q, r) ==
             Rounded(sh, IF 2 * r > 2^sh \/ (2 * r = 2^sh /\ q % 2 = 1) THEN q + 1 ELSE q)
           Sized(a, L) ==
             IF L <= MantissaBits
             THEN <<n * 2^(MantissaBits - L), e - (MantissaBits - L)>>
             ELSE Cut(L - MantissaBits, a \div 2^(L - MantissaBits),
                      a % 2^(L - MantissaBits))
       IN Sized(Abs(n), BitLen(Abs(n)))

\* the double of an integer
Flt(n) == Norm(n, 0)

One == Flt(1)

Two == Flt(2)

Half == Norm(1, -1)

IsZero(x) == x[1] = 0

Neg(x) == <<-x[1], x[2]>>

fabs(x) == <<Abs(x[1]), x[2]>>

\* copysign(x, y); a zero y counts as positive
copysign(x, y) == IF y[1] < 0 THEN <<-Abs(x[1]), x[2]>> ELSE <<Abs(x[1]), x[2]>>

Lt(x, y) ==
  LET sx == Sign(x[1])
      sy == Sign(y[1])
  IN IF sx # sy THEN sx < sy
     ELSE IF sx = 0 THEN FALSE
     ELSE IF sx > 0 THEN x[2] < y[2] \/ (x[2] = y[2] /\ x[1] < y[1])
     ELSE x[2] > y[2] \/ (x[2] = y[2] /\ x[1] < y[1])

Le(x, y) == ~Lt(y, x)

Gt(x, y) == Lt(y, x)

Ge(x, y) == ~Lt(x, y)

Add(x, y) ==
  IF x[1] = 0 THEN y
  ELSE IF y[1] = 0 THEN x
  ELSE LET hi == IF x[2] >= y[2] THEN x ELSE y
           lo == IF x[2] >= y[2] THEN y ELSE x
           d  == hi[2] - lo[2]
       IN IF d > MantissaBits + 1 THEN hi
          ELSE Norm(hi[1] * 2^d + lo[1], lo[2])

Sub(x, y) == Add(x, Neg(y))

Mul(x, y) == Norm(x[1] * y[1], x[2] + y[2])

\* x / y for y # 0; the quotient carries a sticky bit so that the rounding is exact
Div(x, y) ==
  IF x[1] = 0 THEN Zero
  ELSE LET num == Abs(x[1]) * 2^(MantissaBits + 2)
           den == Abs(y[1])
           q   == num \div den
           st  == IF num % den = 0 THEN 0 ELSE 1
       IN Norm(Sign(x[1]) * Sign(y[1]) * (2 * q + st),
               x[2] - y[2] - (MantissaBits + 2) - 1)

RECURSIVE ISqrtFrom(_, _, _)
\* largest s with s*s <= n, searched bit by bit from 2^b down
ISqrtFrom(n, s, b) ==
  IF b < 0 THEN s
  ELSE LET t == s + 2^b
       IN ISqrtFrom(n, IF t * t <= n THEN t ELSE s, b - 1)

ISqrt(n) == ISqrtFrom(n, 0, 14)

\* sqrt(x) for x >= 0, correctly rounded
Sqrt(x) ==
  IF x[1] <= 0 THEN Zero
  ELSE LET Root(k, n, s) == Norm(2 * s + (IF s * s = n THEN 0 ELSE 1), ((x[2] - k) \div 2) - 1)
           Shifted(k) == Root(k, x[1] * 2^k, ISqrt(x[1] * 2^k))
       IN Shifted(IF (x[2] - (MantissaBits + 2)) % 2 = 0
                  THEN MantissaBits + 2 ELSE MantissaBits + 3)

\* hypot(x, y) = sqrt(x*x + y*y), without intermediate overflow
hypot(x, y) == Sqrt(Add(Mul(x, x), Mul(y, y)))

(***************************************************************************)
(* GetScalingFactor                                                        *)
(***************************************************************************)
\* frexp(x, &d_exp) for x > 0: the mantissa in [0.5, 1) ...
frexp_mantissa(x) == <<x[1], -MantissaBits>>

\* ... and the exponent d_exp with x = mantissa * 2^d_exp
frexp_exponent(x) == x[2] + MantissaBits

\* GetScalingFactor without the step for d_exp == max_exponent
GetScalingFactor_unclamped(d_max) ==
  IF Gt(d_max, Zero) THEN Div(d_max, frexp_mantissa(d_max)) ELSE One

GetScalingFactor(d_max) ==
  IF Gt(d_max, Zero)
  THEN LET m0    == frexp_mantissa(d_max)
           d_exp == frexp_exponent(d_max)
           m1    == IF d_exp = max_exponent THEN Mul(m0, Flt(radix)) ELSE m0
       IN Div(d_max, m1)
  ELSE One

(***************************************************************************)
(* Eigenvalues2S, Eigensystem2S                                            *)
(***************************************************************************)
\* numeric_limits<double>::epsilon()
epsilon == Norm(1, 1 - MantissaBits)

sqrt_1_eps == Sqrt(Div(One, epsilon))

\* JacobiT taking a zero zeta for positive
JacobiT_unsigned(d12, d1, d2) ==
  LET Tangent(zeta) ==
        IF Lt(fabs(zeta), sqrt_1_eps)
        THEN copysign(Div(One, Add(fabs(zeta), Sqrt(Add(One, Mul(zeta, zeta))))), zeta)
        ELSE copysign(Div(Half, fabs(zeta)), zeta)
  IN Tangent(Div(Sub(d2, d1), Mul(Two, d12)))

\* the tangent t of the Jacobi rotation, for d12 # 0.  For d1 = d2 the quotient zeta
\* is a zero with the sign of d12, and copysign takes the sign of that zero
JacobiT(d12, d1, d2) ==
  LET Tangent(zeta, sgn) ==
        IF Lt(fabs(zeta), sqrt_1_eps)
        THEN copysign(Div(One, Add(fabs(zeta), Sqrt(Add(One, Mul(zeta, zeta))))), sgn)
        ELSE copysign(Div(Half, fabs(zeta)), sgn)
      Signed(zeta) == Tangent(zeta, IF IsZero(zeta) THEN d12 ELSE zeta)
  IN Signed(Div(Sub(d2, d1), Mul(Two, d12)))

Eigenvalues2S(d12, d1, d2) ==
  IF ~IsZero(d12)
  THEN LET Rotated(t) == [d1 |-> Sub(d1, t), d2 |-> Add(d2, t)]
       IN Rotated(Mul(d12, JacobiT(d12, d1, d2)))
  ELSE [d1 |-> d1, d2 |-> d2]

\* Eigensystem2S with s = t in place of s = c*t
Eigensystem2S_tangent(d12, d1, d2) ==
  IF IsZero(d12)
  THEN [d1 |-> d1, d2 |-> d2, c |-> One, s |-> Zero]
  ELSE LET Rotated(c, s, t2) == [d1 |-> Sub(d1, t2), d2 |-> Add(d2, t2), c |-> c, s |-> s]
           WithC(t, c) == Rotated(c, t, Mul(t, d12))
           WithT(t) == WithC(t, Sqrt(Div(One, Add(One, Mul(t, t)))))
       IN WithT(JacobiT(d12, d1, d2))

Eigensystem2S(d12, d1, d2) ==
  IF IsZero(d12)
  THEN [d1 |-> d1, d2 |-> d2, c |-> One, s |-> Zero]
  ELSE LET Rotated(c, s, t2) == [d1 |-> Sub(d1, t2), d2 |-> Add(d2, t2), c |-> c, s |-> s]
           WithC(t, c) == Rotated(c, Mul(c, t), Mul(t, d12))
           WithT(t) == WithC(t, Sqrt(Div(One, Add(One, Mul(t, t)))))
       IN WithT(JacobiT(d12, d1, d2))

(***************************************************************************)
(* vec_normalize3                                                          *)
(***************************************************************************)
\* returns <<n1, n2, n3>> for the pivot x1 # 0
vec_normalize3_aux(x1, x2, x3) ==
  LET Out(t1, t2) == <<copysign(t1, x1), Mul(x2, t2), Mul(x3, t2)>>
      WithT(t1) == Out(t1, Div(t1, fabs(x1)))
      WithR(r2, r3) == WithT(Sqrt(Div(One, Add(Add(One, Mul(r2, r2)), Mul(r3, r3)))))
  IN WithR(Div(x2, fabs(x1)), Div(x3, fabs(x1)))

\* vec_normalize3 returning the vector as it is
vec_normalize3_raw(x1, x2, x3) == <<x1, x2, x3>>

vec_normalize3(x1, x2, x3) ==
  IF Ge(fabs(x1), fabs(x2)) /\ Ge(fabs(x1), fabs(x3))
  THEN IF ~IsZero(x1) THEN vec_normalize3_aux(x1, x2, x3)
       ELSE <<Zero, Zero, Zero>>
  ELSE IF ~Ge(fabs(x1), fabs(x2)) /\ Ge(fabs(x2), fabs(x3))
  THEN LET Back(n) == <<n[2], n[1], n[3]>> IN Back(vec_normalize3_aux(x2, x1, x3))
  ELSE LET Back(n) == <<n[2], n[3], n[1]>> IN Back(vec_normalize3_aux(x3, x1, x2))

(***************************************************************************)
(* KernelVector2G                                                          *)
(***************************************************************************)
\* Pivot2G leaving the rows and the columns where they are
Pivot2G_unpivoted(mode, d1, d12, d21, d2, swap_columns) ==
  [d1 |-> d1, d12 |-> d12, d21 |-> d21, d2 |-> d2]

\* column and row pivoting of KernelVector2G: the rearranged (d1, d12, d21, d2)
Pivot2G(mode, d1, d12, d21, d2, swap_columns) ==
  IF ~swap_columns
  THEN IF (mode = 0 /\ Gt(fabs(d1), fabs(d21))) \/ (mode # 0 /\ Lt(fabs(d1), fabs(d21)))
       THEN [d1 |-> d21, d12 |-> d2, d21 |-> d1, d2 |-> d12]
       ELSE [d1 |-> d1, d12 |-> d12, d21 |-> d21, d2 |-> d2]
  ELSE IF (mode = 0 /\ Gt(fabs(d12), fabs(d2))) \/ (mode # 0 /\ Lt(fabs(d12), fabs(d2)))
       THEN [d1 |-> d2, d12 |-> d21, d21 |-> d12, d2 |-> d1]
       ELSE [d1 |-> d12, d12 |-> d1, d21 |-> d2, d2 |-> d21]

\* the Householder step zeroing d21: the triangular (d1, d12, 0, d2)
Triangularize2G(p) ==
  IF ~IsZero(p.d21)
  THEN LET Small(mu, n1, mu2) ==
             [d1 |-> mu, d12 |-> Sub(p.d12, Mul(mu2, n1)), d21 |-> p.d21,
              d2 |-> Sub(p.d2, mu2)]
           Large(mu, n2, mu2) ==
             [d1 |-> mu, d12 |-> Sub(p.d12, mu2), d21 |-> p.d21,
              d2 |-> Sub(p.d2, Mul(mu2, n2))]
           WithN1(mu, n1) ==
             Small(mu, n1, Mul(Div(Two, Add(One, Mul(n1, n1))), Add(Mul(n1, p.d12), p.d2)))
           WithN2(mu, n2) ==
             Large(mu, n2, Mul(Div(Two, Add(One, Mul(n2, n2))), Add(p.d12, Mul(n2, p.d2))))
           Branch(mu, n1) ==
             IF Le(fabs(n1), fabs(p.d21))
             THEN WithN1(mu, Div(n1, p.d21))
             ELSE WithN2(mu, Div(p.d21, n1))
           WithMu(mu) == Branch(mu, Mul(Neg(p.d21), Div(p.d21, Add(p.d1, mu))))
       IN WithMu(copysign(hypot(p.d1, p.d21), p.d1))
  ELSE p

\* Minimizer2G taking t = 1 whatever the value at the root t1
Minimizer2G_one(q) == <<One, Zero>>

\* the minimizer (z1, z2) of |d1*z1 + d12*z2| + |d2*z2| on |z1| + |z2| = 1
Minimizer2G(q) ==
  LET Pick(mu, n2) ==
        IF Le(fabs(q.d1), Mul(n2, fabs(q.d2)))
        THEN <<One, Zero>>
        ELSE <<Mul(mu, n2), n2>>
      WithMu(mu) == Pick(mu, Div(One, Add(One, fabs(mu))))
  IN WithMu(Div(Neg(q.d12), q.d1))

\* KernelVector2G leaving (z1, z2) in the order of the swapped columns
KernelVector2G_unswapped(mode, d1, d12, d21, d2) ==
  LET Out(q, z) ==
        [zero |-> FALSE, d1 |-> z[1], d12 |-> q.d12, d21 |-> q.d21, d2 |-> z[2]]
      Solve(q) == Out(q, Minimizer2G(q))
      Pivoted(n1, swap_columns) ==
        IF ~swap_columns /\ IsZero(n1)
        THEN [zero |-> TRUE, d1 |-> d1, d12 |-> d12, d21 |-> d21, d2 |-> d2]
        ELSE Solve(Triangularize2G(Pivot2G(mode, d1, d12, d21, d2, swap_columns)))
      Norms(n1, n2) == Pivoted(n1, Gt(n2, n1))
  IN Norms(Add(fabs(d1), fabs(d21)), Add(fabs(d2), fabs(d12)))

\* zero = TRUE: the matrix is zero and the arguments are as they were;
\* otherwise (d1, d2) is the vector and (d12, d21) are as the elimination left them
KernelVector2G(mode, d1, d12, d21, d2) ==
  LET Out(swap_columns, q, z) ==
        [zero |-> FALSE,
         d1 |-> IF swap_columns THEN z[2] ELSE z[1],
         d12 |-> q.d12, d21 |-> q.d21,
         d2 |-> IF swap_columns THEN z[1] ELSE z[2]]
      Solve(swap_columns, q) == Out(swap_columns, q, Minimizer2G(q))
      Pivoted(n1, swap_columns) ==
        IF ~swap_columns /\ IsZero(n1)
        THEN [zero |-> TRUE, d1 |-> d1, d12 |-> d12, d21 |-> d21, d2 |-> d2]
        ELSE Solve(swap_columns,
                   Triangularize2G(Pivot2G(mode, d1, d12, d21, d2, swap_columns)))
      Norms(n1, n2) == Pivoted(n1, Gt(n2, n1))
  IN Norms(Add(fabs(d1), fabs(d21)), Add(fabs(d2), fabs(d12)))

(***************************************************************************)
(* KernelVector3G_aux                                                      *)
(***************************************************************************)
\* rows 2 and 3 of (I - mu v v^t) applied to columns 2 and 3, where the component
\* of v that the code normalizes to 1 is One (a product with One is exact)
Reflect3G(mu, v1, v2, v3, m) ==
  LET Apply(n2, n3) ==
        [c12 |-> Sub(m.c12, Mul(v1, n2)), d2 |-> Sub(m.d2, Mul(v2, n2)),
         c32 |-> Sub(m.c32, Mul(v3, n2)), c13 |-> Sub(m.c13, Mul(v1, n3)),
         c23 |-> Sub(m.c23, Mul(v2, n3)), d3 |-> Sub(m.d3, Mul(v3, n3))]
  IN Apply(Mul(mu, Add(Add(Mul(v1, m.c12), Mul(v2, m.d2)), Mul(v3, m.c32))),
           Mul(mu, Add(Add(Mul(v1, m.c13), Mul(v2, m.c23)), Mul(v3, m.d3))))

\* 2/(1 + a^2 + b^2)
Gamma3G(a, b) == Div(Two, Add(Add(One, Mul(a, a)), Mul(b, b)))

\* the reflection with the vector v whose component pos is 1 and whose other two
\* components are a and b, in this order
Column1G_reflect(mu, pos, a, b, m) ==
  [d1 |-> mu,
   m |-> Reflect3G(Gamma3G(a, b),
                   IF pos = 1 THEN One ELSE a,
                   IF pos = 1 THEN a ELSE IF pos = 2 THEN One ELSE b,
                   IF pos = 3 THEN One ELSE b, m)]

\* the choice of the largest of |n1|, |c21|, |c31| as the component scaled to 1
Column1G_branch(mu, n1, c21, c31, m) ==
  IF Ge(fabs(n1), fabs(c21)) /\ Ge(fabs(n1), fabs(c31))
  THEN Column1G_reflect(mu, 1, Div(c21, n1), Div(c31, n1), m)
  ELSE IF ~Ge(fabs(n1), fabs(c21)) /\ Ge(fabs(c21), fabs(c31))
  THEN Column1G_reflect(mu, 2, Div(n1, c21), Div(c31, c21), m)
  ELSE Column1G_reflect(mu, 3, Div(n1, c31), Div(c21, c31), m)

\* mu = copysign(hypot(d1, s), d1); n1 = -s*(s/(d1 + mu));
Column1G_mu(s1, mu, d1, c21, c31, m) ==
  Column1G_branch(mu, Mul(Neg(s1), Div(s1, Add(d1, mu))), c21, c31, m)

\* s = hypot(c21, c31); if (s != 0.) ...
Column1G_s(s1, d1, c21, c31, m) ==
  IF ~IsZero(s1) THEN Column1G_mu(s1, copysign(hypot(d1, s1), d1), d1, c21, c31, m)
  ELSE [d1 |-> d1, m |-> m]

\* elimination of the first column (c21, c31) below the pivot d1
Column1G(d1, d2, d3, c12, c13, c23, c21, c31, c32) ==
  Column1G_s(hypot(c21, c31), d1, c21, c31,
             [c12 |-> c12, d2 |-> d2, c32 |-> c32, c13 |-> c13, c23 |-> c23, d3 |-> d3])

\* the solution for the first component and the normalization
KernelVector3G_solve(e, k2) ==
  IF k2.zero
  THEN [kdim |-> 2,
        z |-> vec_normalize3(One, Div(e.m.c12, e.d1), Div(e.m.c13, e.d1))]
  ELSE [kdim |-> 1,
        z |-> vec_normalize3(
                Div(Neg(Add(Mul(e.m.c12, k2.d1), Mul(e.m.c13, k2.d2))), e.d1),
                k2.d1, k2.d2)]

\* the 2x2 problem left by the elimination e
KernelVector3G_lower(mode, e) ==
  KernelVector3G_solve(e, KernelVector2G(mode, e.m.d2, e.m.c23, e.m.c32, e.m.d3))

\* kdim and the normalized vector z = <<z1, z2, z3>>
KernelVector3G_aux(mode, d1, d2, d3, c12, c13, c23, c21, c31, c32) ==
  KernelVector3G_lower(mode, Column1G(d1, d2, d3, c12, c13, c23, c21, c31, c32))

(***************************************************************************)
(* KernelVector3S                                                          *)
(***************************************************************************)
\* PivotColumn3S taking the first column whatever the norms
PivotColumn3S_first(d12, d13, d23, d1, d2, d3) ==
  [col |-> 1, norm |-> Add(Add(fabs(d1), fabs(d12)), fabs(d13))]

\* column pivoting: the column of largest l1-norm
PivotColumn3S(d12, d13, d23, d1, d2, d3) ==
  LET Largest(c32, c31, c21) ==
        IF Ge(c32, c21)
        THEN (IF Ge(c32, c31) THEN [col |-> 1, norm |-> c32] ELSE [col |-> 2, norm |-> c31])
        ELSE (IF Ge(c31, c21) THEN [col |-> 2, norm |-> c31] ELSE [col |-> 3, norm |-> c21])
  IN Largest(Add(Add(fabs(d1), fabs(d12)), fabs(d13)),
             Add(Add(fabs(d2), fabs(d12)), fabs(d23)),
             Add(Add(fabs(d3), fabs(d13)), fabs(d23)))

\* the symmetric swap of rows and columns 1 and col
SwapColumn3S(col, d12, d13, d23, d1, d2, d3) ==
  CASE col = 1 -> [d1 |-> d1, d2 |-> d2, d3 |-> d3, c12 |-> d12, c13 |-> d13, c23 |-> d23]
    [] col = 2 -> [d1 |-> d2, d2 |-> d1, d3 |-> d3, c12 |-> d12, c13 |-> d23, c23 |-> d13]
    [] col = 3 -> [d1 |-> d3, d2 |-> d2, d3 |-> d1, c12 |-> d23, c13 |-> d13, c23 |-> d12]

\* row pivoting depending on mode
PivotRow3S(mode, a) ==
  IF mode = 0
  THEN IF Le(fabs(a.d1), fabs(a.c13))
       THEN (IF Le(fabs(a.d1), fabs(a.c12)) THEN 1 ELSE 2)
       ELSE (IF Le(fabs(a.c12), fabs(a.c13)) THEN 2 ELSE 3)
  ELSE IF Ge(fabs(a.d1), fabs(a.c13))
       THEN (IF Ge(fabs(a.d1), fabs(a.c12)) THEN 1 ELSE 2)
       ELSE (IF Ge(fabs(a.c12), fabs(a.c13)) THEN 2 ELSE 3)

\* the general matrix handed to KernelVector3G_aux after the row rearrangement
SwapRow3S(row, a) ==
  CASE row = 1 -> [d1 |-> a.d1, d2 |-> a.d2, d3 |-> a.d3,
                   c12 |-> a.c12, c13 |-> a.c13, c23 |-> a.c23,
                   c21 |-> a.c12, c31 |-> a.c13, c32 |-> a.c23]
    [] row = 2 -> [d1 |-> a.c12, d2 |-> a.c12, d3 |-> a.d3,
                   c12 |-> a.d2, c13 |-> a.c23, c23 |-> a.c13,
                   c21 |-> a.d1, c31 |-> a.c13, c32 |-> a.c23]
    [] row = 3 -> [d1 |-> a.c13, d2 |-> a.d2, d3 |-> a.c13,
                   c12 |-> a.c23, c13 |-> a.d3, c23 |-> a.c23,
                   c21 |-> a.c12, c31 |-> a.d1, c32 |-> a.c12]

\* Unswap3S leaving z in the order of the pivoted columns
Unswap3S_pivoted(col, r) == r

\* the swap of the entries of z that undoes the column swap
Unswap3S(col, r) ==
  [kdim |-> r.kdim,
   z |-> CASE col = 1 -> r.z
           [] col = 2 -> <<r.z[2], r.z[1], r.z[3]>>
           [] col = 3 -> <<r.z[3], r.z[2], r.z[1]>>]

\* KernelVector3G_aux on the entries of b
KernelVector3G(mode, b) ==
  KernelVector3G_aux(mode, b.d1, b.d2, b.d3, b.c12, b.c13, b.c23, b.c21, b.c31, b.c32)

\* the part of KernelVector3S after the column pivot p
KernelVector3S_pivoted(mode, p, d12, d13, d23, d1, d2, d3) ==
  IF IsZero(p.norm)
  THEN [kdim |-> 3, z |-> <<d1, d2, d3>>]
  ELSE Unswap3S(p.col,
                KernelVector3G(mode,
                  SwapRow3S(PivotRow3S(mode, SwapColumn3S(p.col, d12, d13, d23, d1, d2, d3)),
                            SwapColumn3S(p.col, d12, d13, d23, d1, d2, d3))))

\* kdim and the vector z; for kdim = 3 z is (d1, d2, d3) as passed
KernelVector3S(mode, d12, d13, d23, d1, d2, d3) ==
  KernelVector3S_pivoted(mode, PivotColumn3S(d12, d13, d23, d1, d2, d3),
                         d12, d13, d23, d1, d2, d3)

(***************************************************************************)
(* Reduce3S                                                                *)
(***************************************************************************)
\* ReduceIndex comparing z1 and z2 only
ReduceIndex_two(mode, z1, z2, z3) ==
  IF mode = 0
  THEN (IF Le(fabs(z1), fabs(z2)) THEN 1 ELSE 2)
  ELSE (IF Ge(fabs(z1), fabs(z2)) THEN 1 ELSE 2)

\* the index k of the entry of z used as the pivot
ReduceIndex(mode, z1, z2, z3) ==
  IF mode = 0
  THEN IF Le(fabs(z1), fabs(z3))
       THEN (IF Le(fabs(z1), fabs(z2)) THEN 1 ELSE 2)
       ELSE (IF Le(fabs(z2), fabs(z3)) THEN 2 ELSE 3)
  ELSE IF Ge(fabs(z1), fabs(z3))
       THEN (IF Ge(fabs(z1), fabs(z2)) THEN 1 ELSE 2)
       ELSE (IF Ge(fabs(z2), fabs(z3)) THEN 2 ELSE 3)

Max2(x, y) == IF Gt(y, x) THEN y ELSE x

\* the reflection Q = I - g v v^t with Q y = e_1 and the entries of Q A Q,
\* for the permuted matrix a and the permuted vector y = <<y1, y2, y3>>
Reflect3S(a, y) ==
  LET Out(v1, v2, v3, g, w1, w2, w3) ==
        [d1  |-> Sub(a.d1, Mul(Mul(Two, v1), w1)),
         d2  |-> Sub(a.d2, Mul(Mul(Two, v2), w2)),
         d3  |-> Sub(a.d3, Mul(Mul(Two, v3), w3)),
         d23 |-> Sub(a.c23, Add(Mul(v2, w3), Mul(v3, w2))),
         b12 |-> Sub(Sub(a.c12, Mul(v1, w2)), Mul(v2, w1)),
         b13 |-> Sub(Sub(a.c13, Mul(v1, w3)), Mul(v3, w1)),
         v1 |-> v1, v2 |-> v2, v3 |-> v3, g |-> g]
      WithT(v1, v2, v3, g, u1, u2, u3, t) ==
        Out(v1, v2, v3, g, Sub(u1, Mul(t, v1)), Sub(u2, Mul(t, v2)), Sub(u3, Mul(t, v3)))
      WithW(v1, v2, v3, g, u1, u2, u3) ==
        WithT(v1, v2, v3, g, u1, u2, u3,
              Mul(Div(g, Two), Add(Add(Mul(v1, u1), Mul(v2, u2)), Mul(v3, u3))))
      WithG(v1, v2, v3, g) ==
        WithW(v1, v2, v3, g,
              Mul(g, Add(Add(Mul(a.d1, v1), Mul(a.c12, v2)), Mul(a.c13, v3))),
              Mul(g, Add(Add(Mul(a.c12, v1), Mul(a.d2, v2)), Mul(a.c23, v3))),
              Mul(g, Add(Add(Mul(a.c13, v1), Mul(a.c23, v2)), Mul(a.d3, v3))))
      WithV(v1, v2, v3) ==
        WithG(v1, v2, v3, Div(Two, Add(Add(Mul(v1, v1), Mul(v2, v2)), Mul(v3, v3))))
      Scaled3(u1, gm) == WithV(Div(u1, gm), Div(y[2], gm), Div(y[3], gm))
      WithU1(u1) == Scaled3(u1, Max2(Max2(fabs(u1), fabs(y[2])), fabs(y[3])))
      WithS(s) ==
        IF IsZero(s)
        THEN [d1 |-> a.d1, d2 |-> a.d2, d3 |-> a.d3, d23 |-> a.c23,
              b12 |-> a.c12, b13 |-> a.c13,
              v1 |-> Zero, v2 |-> Zero, v3 |-> Zero, g |-> One]
        ELSE WithU1(Mul(Neg(s), Div(s, Add(y[1], copysign(One, y[1])))))
  IN WithS(hypot(y[2], y[3]))

\* Reduce3S with the reflection built from z as passed, not from P z
Reduce3S_unpermuted(mode, d1, d2, d3, d12, d13, d23, z1, z2, z3) ==
  LET Reduced(k) ==
        [k |-> k,
         b |-> Reflect3S(SwapColumn3S(k, d12, d13, d23, d1, d2, d3), <<z1, z2, z3>>)]
  IN Reduced(ReduceIndex(mode, z1, z2, z3))

\* k, the entries (b1, b2, b3, b23) in (d1, d2, d3, d23), v and g; b12 and b13 are
\* the entries the MFEM_DEBUG lines compute; z is handed back unchanged
Reduce3S(mode, d1, d2, d3, d12, d13, d23, z1, z2, z3) ==
  LET Reduced(k) ==
        [k |-> k,
         b |-> Reflect3S(SwapColumn3S(k, d12, d13, d23, d1, d2, d3),
                         CASE k = 1 -> <<z1, z2, z3>>
                           [] k = 2 -> <<z2, z1, z3>>
                           [] k = 3 -> <<z3, z2, z1>>)]
  IN Reduced(ReduceIndex(mode, z1, z2, z3))

(***************************************************************************)
(* The divisors                                                            *)
(*                                                                         *)
(* For each function of the kernel, the divisors of the divisions it       *)
(* executes on the path it takes, up to the first divisor that is zero     *)
(* (what follows a division by zero is not a finite double).  Divisions by *)
(* the constant 2 are left out.                                            *)
(***************************************************************************)
HasZero(D) == \E x \in D : IsZero(x)

\* r = x2/m; r = x3/m; t = sqrt(1./(t + r*r)); t /= m;
vec_normalize3_aux_divisors(x1, x2, x3) ==
  IF IsZero(x1) THEN {fabs(x1)}
  ELSE LET Sum(r2, r3) == {fabs(x1), Add(Add(One, Mul(r2, r2)), Mul(r3, r3))}
       IN Sum(Div(x2, fabs(x1)), Div(x3, fabs(x1)))

vec_normalize3_divisors(x1, x2, x3) ==
  IF Ge(fabs(x1), fabs(x2)) /\ Ge(fabs(x1), fabs(x3))
  THEN IF ~IsZero(x1) THEN vec_normalize3_aux_divisors(x1, x2, x3) ELSE {}
  ELSE IF ~Ge(fabs(x1), fabs(x2)) /\ Ge(fabs(x2), fabs(x3))
  THEN vec_normalize3_aux_divisors(x2, x1, x3)
  ELSE vec_normalize3_aux_divisors(x3, x1, x2)

\* d21/(d1 + mu); n1/d21 and 2./(1. + n1*n1), or d21/n1 and 2./(1. + n2*n2)
Triangularize2G_divisors(p) ==
  IF IsZero(p.d21) THEN {}
  ELSE LET Unit(s, m, a) ==
             IF IsZero(m) THEN {s, m}
             ELSE {s, m, Add(One, Mul(Div(a, m), Div(a, m)))}
           Branch(s, n1) ==
             IF Le(fabs(n1), fabs(p.d21)) THEN Unit(s, p.d21, n1) ELSE Unit(s, n1, p.d21)
           WithS(s) ==
             IF IsZero(s) THEN {s} ELSE Branch(s, Mul(Neg(p.d21), Div(p.d21, s)))
       IN WithS(Add(p.d1, copysign(hypot(p.d1, p.d21), p.d1)))

\* mu = -d12/d1; n2 = 1./(1. + fabs(mu));
Minimizer2G_divisors(q) ==
  IF IsZero(q.d1) THEN {q.d1}
  ELSE {q.d1, Add(One, fabs(Div(Neg(q.d12), q.d1)))}

KernelVector2G_divisors(mode, d1, d12, d21, d2) ==
  LET Solve(p, D) ==
        IF HasZero(D) THEN D ELSE D \cup Minimizer2G_divisors(Triangularize2G(p))
      Pivoted(p) == Solve(p, Triangularize2G_divisors(p))
      Norms(n1, n2) ==
        IF ~Gt(n2, n1) /\ IsZero(n1) THEN {}
        ELSE Pivoted(Pivot2G(mode, d1, d12, d21, d2, Gt(n2, n1)))
  IN Norms(Add(fabs(d1), fabs(d21)), Add(fabs(d2), fabs(d12)))

\* s1/(d1 + mu); the two quotients by the largest of n1, c21, c31; 2./(1. + ...)
Column1G_divisors(d1, c21, c31) ==
  LET Unit(s, m, a, b) ==
        IF IsZero(m) THEN {s, m}
        ELSE {s, m, Add(Add(One, Mul(Div(a, m), Div(a, m))), Mul(Div(b, m), Div(b, m)))}
      Branch(s, n1) ==
        IF Ge(fabs(n1), fabs(c21)) /\ Ge(fabs(n1), fabs(c31))
        THEN Unit(s, n1, c21, c31)
        ELSE IF ~Ge(fabs(n1), fabs(c21)) /\ Ge(fabs(c21), fabs(c31))
        THEN Unit(s, c21, n1, c31)
        ELSE Unit(s, c31, n1, c21)
      WithS(s1, s) == IF IsZero(s) THEN {s} ELSE Branch(s, Mul(Neg(s1), Div(s1, s)))
      WithS1(s1) ==
        IF IsZero(s1) THEN {} ELSE WithS(s1, Add(d1, copysign(hypot(d1, s1), d1)))
  IN WithS1(hypot(c21, c31))

\* c12/d1 and c13/d1, or -(c12*d2 + c13*d3)/d1, and vec_normalize3
KernelVector3G_solve_divisors(e, k2) ==
  IF IsZero(e.d1) THEN {e.d1}
  ELSE {e.d1} \cup
       (IF k2.zero
        THEN vec_normalize3_divisors(One, Div(e.m.c12, e.d1), Div(e.m.c13, e.d1))
        ELSE vec_normalize3_divisors(
               Div(Neg(Add(Mul(e.m.c12, k2.d1), Mul(e.m.c13, k2.d2))), e.d1),
               k2.d1, k2.d2))

KernelVector3G_lower_divisors(mode, e) ==
  LET Solve(D) ==
        IF HasZero(D) THEN D
        ELSE D \cup UNION {KernelVector3G_solve_divisors(e, k2) :
                             k2 \in {KernelVector2G(mode, e.m.d2, e.m.c23, e.m.c32, e.m.d3)}}
  IN Solve(KernelVector2G_divisors(mode, e.m.d2, e.m.c23, e.m.c32, e.m.d3))

KernelVector3G_aux_divisors(mode, d1, d2, d3, c12, c13, c23, c21, c31, c32) ==
  LET Lower(D) ==
        IF HasZero(D) THEN D
        ELSE D \cup UNION {KernelVector3G_lower_divisors(mode, e) :
                             e \in {Column1G(d1, d2, d3, c12, c13, c23, c21, c31, c32)}}
  IN Lower(Column1G_divisors(d1, c21, c31))

KernelVector3S_divisors(mode, d12, d13, d23, d1, d2, d3) ==
  UNION {IF IsZero(p.norm) THEN {}
         ELSE UNION {UNION {KernelVector3G_aux_divisors(
                              mode, b.d1, b.d2, b.d3, b.c12, b.c13, b.c23,
                              b.c21, b.c31, b.c32) :
                            b \in {SwapRow3S(PivotRow3S(mode, a), a)}} :
                     a \in {SwapColumn3S(p.col, d12, d13, d23, d1, d2, d3)}} :
         p \in {PivotColumn3S(d12, d13, d23, d1, d2, d3)}}

\* s/(z1 + g); v1/g, z2/g and z3/g; 2./(v1*v1 + v2*v2 + v3*v3), for the permuted z
Reflect3S_divisors(y) ==
  LET Squares(v1, v2, v3) == Add(Add(Mul(v1, v1), Mul(v2, v2)), Mul(v3, v3))
      Scaled3(t, u1, gm) ==
        IF IsZero(gm) THEN {t, gm}
        ELSE {t, gm, Squares(Div(u1, gm), Div(y[2], gm), Div(y[3], gm))}
      WithU1(t, u1) == Scaled3(t, u1, Max2(Max2(fabs(u1), fabs(y[2])), fabs(y[3])))
      WithT(s, t) == IF IsZero(t) THEN {t} ELSE WithU1(t, Mul(Neg(s), Div(s, t)))
      WithS(s) == IF IsZero(s) THEN {} ELSE WithT(s, Add(y[1], copysign(One, y[1])))
  IN WithS(hypot(y[2], y[3]))

Reduce3S_divisors(mode, z1, z2, z3) ==
  LET Permuted(k) ==
        Reflect3S_divisors(CASE k = 1 -> <<z1, z2, z3>>
                             [] k = 2 -> <<z2, z1, z3>>
                             [] k = 3 -> <<z3, z2, z1>>)
  IN Permuted(ReduceIndex(mode, z1, z2, z3))

(***************************************************************************)
(* cos((acos(R) + 2 pi j)/3)                                               *)
(***************************************************************************)
\* number of fraction bits to which the cosine is computed
TrigBits == 9

\* n^3 - (3/4) n, a quarter of the Chebyshev polynomial cos(3 t) = 4 n^3 - 3 n of
\* n = cos(t), in units 2^(-3 TrigBits)
Cheb3(n) == n * n * n - 3 * n * 2^(2 * TrigBits - 2)

RECURSIVE Bisect(_, _, _, _)
\* the largest n in lo..hi with dir * Cheb3(n) <= dir * X (lo if there is none)
Bisect(X, lo, hi, dir) ==
  IF hi - lo <= 1
  THEN IF dir * Cheb3(hi) <= dir * X THEN hi ELSE lo
  ELSE LET mid == (lo + hi) \div 2
       IN IF dir * Cheb3(mid) <= dir * X
          THEN Bisect(X, mid, hi, dir)
          ELSE Bisect(X, lo, mid, dir)

\* cos((acos(R) + 2 pi j)/3) for -1 <= R <= 1 and j in {-1, 0, 1}: the root c of
\* 4 c^3 - 3 c = R in [1/2, 1] for j = 0, in [-1, -1/2] for j = 1, in [-1/2, 1/2] for j = -1
CosThird(R, j) ==
  LET Nearest(X, hi, n0) ==
        Norm(IF n0 < hi /\ Abs(Cheb3(n0 + 1) - X) < Abs(Cheb3(n0) - X) THEN n0 + 1 ELSE n0,
             -TrigBits)
      Search(X, lo, hi, dir) == Nearest(X, hi, Bisect(X, lo, hi, dir))
      Bracket(X, h) ==
        CASE j = 0 -> Search(X, h, 2 * h, 1)
          [] j = 1 -> Search(X, -2 * h, -h, 1)
          [] j = -1 -> Search(X, -h, h, -1)
      WithSh(sh) == Bracket(IF sh >= 0 THEN R[1] * 2^sh ELSE R[1] \div 2^(-sh),
                            2^(TrigBits - 1))
  IN WithSh(R[2] + 3 * TrigBits - 2)

(***************************************************************************)
(* DenseMatrix::CalcEigenvalues                                            *)
(***************************************************************************)
\* if (d_max < fabs(x)) d_max = fabs(x);
MaxAbs(d_max, x) == IF Lt(d_max, fabs(x)) THEN fabs(x) ELSE d_max

\* the content of an entry of lambda or vec that no call has written
Unwritten == <<0, 1>>

\* the caller's arrays before the call
lambda0 == [i \in 0..2 |-> Unwritten]

vec0 == [i \in 0..8 |-> Unwritten]

\* a[i] = x
Put(a, i, x) == [a EXCEPT ![i] = x]

\* Swap(a[i], a[j])
SwapAt(a, i, j) == [a EXCEPT ![i] = a[j], ![j] = a[i]]

\* WriteId3 storing the three ones only
WriteId3_diagonal(vec) == Put(Put(Put(vec, 0, One), 4, One), 8, One)

\* vec = I, as the Q <= 0 and the kdim == 3 branches write it
WriteId3(vec) ==
  [i \in 0..8 |-> IF i \in {0, 4, 8} THEN One ELSE Zero]

\* Q and R of the matrix with the deviatoric diagonal (c1, c2, c3)
InvariantQ(d12, d13, d23, c1, c2, c3) ==
  Div(Add(Add(Add(Mul(Two, Add(Add(Mul(d12, d12), Mul(d13, d13)), Mul(d23, d23))),
                  Mul(c1, c1)), Mul(c2, c2)), Mul(c3, c3)), Flt(6))

InvariantR(d12, d13, d23, c1, c2, c3) ==
  Div(Add(Add(Mul(c1, Sub(Mul(d23, d23), Mul(c2, c3))),
              Mul(d12, Sub(Mul(d12, c3), Mul(Mul(Two, d13), d23)))),
          Mul(Mul(d13, d13), c2)), Two)

\* the invariants aa = tr(A)/3, Q and R of the scaled matrix
Invariants3(d11, d22, d33, d12, d13, d23) ==
  LET Deviatoric(aa, c1, c2, c3) ==
        [aa |-> aa, Q |-> InvariantQ(d12, d13, d23, c1, c2, c3),
         R |-> InvariantR(d12, d13, d23, c1, c2, c3)]
      Trace(aa) == Deviatoric(aa, Sub(d11, aa), Sub(d22, aa), Sub(d33, aa))
  IN Trace(Div(Add(Add(d11, d22), d33), Flt(3)))

\* r for R normalized by sqrtQ3, |R| < 1
SeparatedRoot_R(sqrtQ, Rn) ==
  IF Lt(Rn, Zero)
  THEN Mul(Mul(Neg(Two), sqrtQ), CosThird(Rn, 1))
  ELSE Mul(Mul(Neg(Two), sqrtQ), CosThird(Rn, 0))

\* SeparatedRoot_sqrtQ with the signs of the branch fabs(R) >= sqrtQ3 exchanged
SeparatedRoot_sqrtQ_flipped(R, sqrtQ, sqrtQ3) ==
  IF Ge(fabs(R), sqrtQ3)
  THEN (IF Lt(R, Zero) THEN Mul(Neg(Two), sqrtQ) ELSE Mul(Two, sqrtQ))
  ELSE SeparatedRoot_R(sqrtQ, Div(R, sqrtQ3))

SeparatedRoot_sqrtQ(R, sqrtQ, sqrtQ3) ==
  IF Ge(fabs(R), sqrtQ3)
  THEN (IF Lt(R, Zero) THEN Mul(Two, sqrtQ) ELSE Mul(Neg(Two), sqrtQ))
  ELSE SeparatedRoot_R(sqrtQ, Div(R, sqrtQ3))

\* r such that aa + r is the root separated from the other two (Q > 0)
SeparatedRoot(Q, R) == SeparatedRoot_sqrtQ(R, Sqrt(Q), Mul(Q, Sqrt(Q)))

\* Sort3 with the first case storing the values in decreasing order
Sort3_descending(d11, d22, d33) ==
  IF Le(d11, d22)
  THEN IF Le(d22, d33) THEN [lambda |-> <<d33, d22, d11>>, slot |-> <<2, 1, 0>>]
       ELSE IF Le(d11, d33) THEN [lambda |-> <<d11, d33, d22>>, slot |-> <<0, 2, 1>>]
       ELSE [lambda |-> <<d33, d11, d22>>, slot |-> <<1, 2, 0>>]
  ELSE IF Le(d11, d33) THEN [lambda |-> <<d22, d11, d33>>, slot |-> <<1, 0, 2>>]
       ELSE IF Le(d22, d33) THEN [lambda |-> <<d22, d33, d11>>, slot |-> <<2, 0, 1>>]
       ELSE [lambda |-> <<d33, d22, d11>>, slot |-> <<2, 1, 0>>]

\* Sort3 with the second case storing d22 before d33
Sort3_unsorted(d11, d22, d33) ==
  IF Le(d11, d22)
  THEN IF Le(d22, d33) THEN [lambda |-> <<d11, d22, d33>>, slot |-> <<0, 1, 2>>]
       ELSE IF Le(d11, d33) THEN [lambda |-> <<d11, d22, d33>>, slot |-> <<0, 1, 2>>]
       ELSE [lambda |-> <<d33, d11, d22>>, slot |-> <<1, 2, 0>>]
  ELSE IF Le(d11, d33) THEN [lambda |-> <<d22, d11, d33>>, slot |-> <<1, 0, 2>>]
       ELSE IF Le(d22, d33) THEN [lambda |-> <<d22, d33, d11>>, slot |-> <<2, 0, 1>>]
       ELSE [lambda |-> <<d33, d22, d11>>, slot |-> <<2, 1, 0>>]

\* the six-way sort of (d11, d22, d33): lambda and, for vec_1, vec_2 and vec_3, the
\* index of the column of vec each points to
Sort3(d11, d22, d33) ==
  IF Le(d11, d22)
  THEN IF Le(d22, d33) THEN [lambda |-> <<d11, d22, d33>>, slot |-> <<0, 1, 2>>]
       ELSE IF Le(d11, d33) THEN [lambda |-> <<d11, d33, d22>>, slot |-> <<0, 2, 1>>]
       ELSE [lambda |-> <<d33, d11, d22>>, slot |-> <<1, 2, 0>>]
  ELSE IF Le(d11, d33) THEN [lambda |-> <<d22, d11, d33>>, slot |-> <<1, 0, 2>>]
       ELSE IF Le(d22, d33) THEN [lambda |-> <<d22, d33, d11>>, slot |-> <<2, 0, 1>>]
       ELSE [lambda |-> <<d33, d22, d11>>, slot |-> <<2, 1, 0>>]

\* WriteColumns_t without the exchange of the entries 1 and k
WriteColumns_t_unexchanged(vec, p1, p2, p3, k, z, b, c, s, t22, t33) ==
  LET w1 == Put(Put(Put(vec, p1, z[1]), p1 + 1, z[2]), p1 + 2, z[3])
      w2 == Put(Put(w1, p2, Neg(Mul(b.v1, t22))), p3, Neg(Mul(b.v1, t33)))
      w3 == Put(Put(w2, p2 + 1, Sub(c, Mul(b.v2, t22))), p3 + 1, Sub(s, Mul(b.v2, t33)))
  IN Put(Put(w3, p2 + 2, Sub(Neg(s), Mul(b.v3, t22))), p3 + 2, Sub(c, Mul(b.v3, t33)))

\* the writes of the columns for given t22 and t33
WriteColumns_t(vec, p1, p2, p3, k, z, b, c, s, t22, t33) ==
  LET w1 == Put(Put(Put(vec, p1, z[1]), p1 + 1, z[2]), p1 + 2, z[3])
      w2 == Put(Put(w1, p2, Neg(Mul(b.v1, t22))), p3, Neg(Mul(b.v1, t33)))
      w3 == Put(Put(w2, p2 + 1, Sub(c, Mul(b.v2, t22))), p3 + 1, Sub(s, Mul(b.v2, t33)))
      w4 == Put(Put(w3, p2 + 2, Sub(Neg(s), Mul(b.v3, t22))), p3 + 2, Sub(c, Mul(b.v3, t33)))
  IN CASE k = 1 -> w4
       [] k = 2 -> SwapAt(SwapAt(w4, p2, p2 + 1), p3, p3 + 1)
       [] k = 3 -> SwapAt(SwapAt(w4, p2, p2 + 2), p3, p3 + 2)

\* WriteColumns with vec_1 and vec_2 exchanged
WriteColumns_exchanged(vec, slot, k, z, b, c, s) ==
  WriteColumns_t(vec, 3 * slot[2], 3 * slot[1], 3 * slot[3], k, z, b, c, s,
                 Mul(b.g, Sub(Mul(b.v2, c), Mul(b.v3, s))),
                 Mul(b.g, Add(Mul(b.v2, s), Mul(b.v3, c))))

\* the writes of the columns: vec_1 = z, vec_2 = P Q (0, c, -s)^t and
\* vec_3 = P Q (0, s, c)^t, where vec_j = vec + 3*slot[j]
WriteColumns(vec, slot, k, z, b, c, s) ==
  WriteColumns_t(vec, 3 * slot[1], 3 * slot[2], 3 * slot[3], k, z, b, c, s,
                 Mul(b.g, Sub(Mul(b.v2, c), Mul(b.v3, s))),
                 Mul(b.g, Add(Mul(b.v2, s), Mul(b.v3, c))))

\* CalcEigenvalues2_store with vec stored row by row
CalcEigenvalues2_store_rows(e, lambda, vec) ==
  IF Le(e.d1, e.d2)
  THEN [path |-> "n2", swapped |-> FALSE, b |-> <<e.d1, e.d2>>, c |-> e.c, s |-> e.s,
        lambda |-> Put(Put(lambda, 0, e.d1), 1, e.d2),
        vec |-> Put(Put(Put(Put(vec, 0, e.c), 1, e.s), 2, Neg(e.s)), 3, e.c)]
  ELSE [path |-> "n2", swapped |-> TRUE, b |-> <<e.d1, e.d2>>, c |-> e.c, s |-> e.s,
        lambda |-> Put(Put(lambda, 0, e.d2), 1, e.d1),
        vec |-> Put(Put(Put(Put(vec, 0, e.s), 1, e.c), 2, e.c), 3, Neg(e.s))]

\* the stores of the n == 2 branch for the eigensystem e
CalcEigenvalues2_store(e, lambda, vec) ==
  IF Le(e.d1, e.d2)
  THEN [path |-> "n2", swapped |-> FALSE, b |-> <<e.d1, e.d2>>, c |-> e.c, s |-> e.s,
        lambda |-> Put(Put(lambda, 0, e.d1), 1, e.d2),
        vec |-> Put(Put(Put(Put(vec, 0, e.c), 1, Neg(e.s)), 2, e.s), 3, e.c)]
  ELSE [path |-> "n2", swapped |-> TRUE, b |-> <<e.d1, e.d2>>, c |-> e.c, s |-> e.s,
        lambda |-> Put(Put(lambda, 0, e.d2), 1, e.d1),
        vec |-> Put(Put(Put(Put(vec, 0, e.s), 1, e.c), 2, e.c), 3, Neg(e.s))]

\* CalcEigenvalues2 taking the entry below the diagonal for d12
CalcEigenvalues2_lower(d, lambda, vec) ==
  CalcEigenvalues2_store(Eigensystem2S(d[1], d[0], d[3]), lambda, vec)

\* n == 2; d is the array of entries read, lambda and vec the caller's arrays
CalcEigenvalues2(d, lambda, vec) ==
  CalcEigenvalues2_store(Eigensystem2S(d[2], d[0], d[3]), lambda, vec)

\* Done3d without lambda[2] *= mult
Done3d_short(lambda, mult) ==
  [i \in 0..2 |-> IF i = 2 THEN lambda[i] ELSE Mul(lambda[i], mult)]

\* lambda[0] *= mult; lambda[1] *= mult; lambda[2] *= mult;
Done3d(lambda, mult) == [i \in 0..2 |-> Mul(lambda[i], mult)]

\* WriteTriple storing aa in lambda[0] only
WriteTriple_single(lambda, aa) == Put(lambda, 0, aa)

\* lambda[0] = lambda[1] = lambda[2] = aa;
WriteTriple(lambda, aa) == [i \in 0..2 |-> aa]

\* the sort of the eigenvalues and the columns of vec
CalcEigenvalues3_sorted(mult, vec, A, aa, kv, red, e, srt) ==
  [path |-> "deflate", mult |-> mult,
   lambda |-> Done3d([i \in 0..2 |-> srt.lambda[i + 1]], mult),
   vec |-> WriteColumns(vec, srt.slot, red.k, kv.z, red.b, e.c, e.s),
   kdim |-> kv.kdim, k |-> red.k, slot |-> srt.slot,
   b |-> <<red.b.d1, e.d1, e.d2>>, z |-> kv.z, aa |-> aa,
   c |-> e.c, s |-> e.s, v |-> <<red.b.v1, red.b.v2, red.b.v3>>, g |-> red.b.g]

\* Eigensystem2S(d23, d22, d33, c, s)
CalcEigenvalues3_rotated(mult, vec, A, aa, kv, red, e) ==
  CalcEigenvalues3_sorted(mult, vec, A, aa, kv, red, e, Sort3(red.b.d1, e.d1, e.d2))

\* Reduce3S(mode, d11, d22, d33, d12, d13, d23, c1, c2, c3, v1, v2, v3, g)
CalcEigenvalues3_reduced(mult, vec, A, aa, kv, red) ==
  CalcEigenvalues3_rotated(mult, vec, A, aa, kv, red,
                           Eigensystem2S(red.b.d23, red.b.d2, red.b.d3))

\* switch (KernelVector3S(mode, d12, d13, d23, c1, c2, c3))
CalcEigenvalues3_kernel(mult, lambda, vec, A, aa, kv) ==
  IF kv.kdim = 3
  THEN [path |-> "kdim3", mult |-> mult,
        lambda |-> Done3d(WriteTriple(lambda, aa), mult), vec |-> WriteId3(vec)]
  ELSE CalcEigenvalues3_reduced(mult, vec, A, aa, kv,
         Reduce3S(0, A.d11, A.d22, A.d33, A.d12, A.d13, A.d23, kv.z[1], kv.z[2], kv.z[3]))

\* aa += r; c1 = d11 - aa; c2 = d22 - aa; c3 = d33 - aa; mode = 0
CalcEigenvalues3_root(mult, lambda, vec, A, aa) ==
  CalcEigenvalues3_kernel(mult, lambda, vec, A, aa,
    KernelVector3S(0, A.d12, A.d13, A.d23, Sub(A.d11, aa), Sub(A.d22, aa), Sub(A.d33, aa)))

\* if (Q <= 0.) ... else ...
CalcEigenvalues3_invariants(mult, lambda, vec, A, inv) ==
  IF Le(inv.Q, Zero)
  THEN [path |-> "Q0", mult |-> mult,
        lambda |-> Done3d(WriteTriple(lambda, inv.aa), mult), vec |-> WriteId3(vec)]
  ELSE CalcEigenvalues3_root(mult, lambda, vec, A, Add(inv.aa, SeparatedRoot(inv.Q, inv.R)))

\* the computation on the scaled entries A
CalcEigenvalues3_scaled(mult, lambda, vec, A) ==
  CalcEigenvalues3_invariants(mult, lambda, vec, A,
                              Invariants3(A.d11, A.d22, A.d33, A.d12, A.d13, A.d23))

\* d11 = d[0]/mult; d22 = d[4]/mult; d33 = d[8]/mult; d12 = d[3]/mult; ...
CalcEigenvalues3_mult(d, lambda, vec, mult) ==
  CalcEigenvalues3_scaled(mult, lambda, vec,
    [d11 |-> Div(d[0], mult), d22 |-> Div(d[4], mult), d33 |-> Div(d[8], mult),
     d12 |-> Div(d[3], mult), d13 |-> Div(d[6], mult), d23 |-> Div(d[7], mult)])

\* n == 3 (the else branch); d is the array of entries read
CalcEigenvalues3(d, lambda, vec) ==
  CalcEigenvalues3_mult(d, lambda, vec,
    GetScalingFactor(
      MaxAbs(MaxAbs(MaxAbs(MaxAbs(MaxAbs(fabs(d[0]), d[4]), d[8]), d[3]), d[6]), d[7])))

(***************************************************************************)
(* DenseMatrix::CalcSingularvalue                                          *)
(***************************************************************************)
\* t = fabs(d0*d3 - d1*d2)/s and the choice between t and s
CalcSingularvalue2_s(i, mult, d0, d1, d2, d3, s) ==
  IF IsZero(s) THEN Zero
  ELSE LET Larger(t1) ==
             IF Gt(t1, s)
             THEN (IF i = 0 THEN Mul(t1, mult) ELSE Mul(s, mult))
             ELSE (IF i = 0 THEN Mul(s, mult) ELSE Mul(t1, mult))
       IN Larger(Div(fabs(Sub(Mul(d0, d3), Mul(d1, d2))), s))

\* the larger singular value s of the scaled matrix
CalcSingularvalue2_scaled(i, mult, d0, d1, d2, d3) ==
  LET Root(t, s0) ==
        Sqrt(Add(Mul(Half, Add(Add(Add(Mul(d0, d0), Mul(d1, d1)), Mul(d2, d2)),
                               Mul(d3, d3))),
                 Sqrt(Add(Mul(t, t), Mul(s0, s0)))))
  IN CalcSingularvalue2_s(i, mult, d0, d1, d2, d3,
       Root(Mul(Half, Add(Mul(Add(d0, d2), Sub(d0, d2)), Mul(Sub(d1, d3), Add(d1, d3)))),
            Add(Mul(d0, d2), Mul(d1, d3))))

CalcSingularvalue2_mult(d, i, mult) ==
  CalcSingularvalue2_scaled(i, mult, Div(d[0], mult), Div(d[1], mult), Div(d[2], mult),
                            Div(d[3], mult))

\* n == 2; d is the array of entries read
CalcSingularvalue2(d, i) ==
  CalcSingularvalue2_mult(d, i,
    GetScalingFactor(MaxAbs(MaxAbs(MaxAbs(fabs(d[0]), d[1]), d[2]), d[3])))

\* std::min and std::max
Min2(x, y) == IF Lt(y, x) THEN y ELSE x

StdMax(x, y) == IF Lt(x, y) THEN y ELSE x

\* Select3 without the case i == 1
Select3_extremes(i, b11, b22, b33) ==
  IF i = 2 THEN Min2(Min2(b11, b22), b33)
  ELSE StdMax(StdMax(b11, b22), b33)

\* the selection among the deflated values: i == 2 the smallest, i == 1 the median,
\* otherwise the largest
Select3(i, b11, b22, b33) ==
  IF i = 2 THEN Min2(Min2(b11, b22), b33)
  ELSE IF i = 1
  THEN IF Le(b11, b22)
       THEN (IF Le(b22, b33) THEN b22 ELSE StdMax(b11, b33))
       ELSE (IF Le(b11, b33) THEN b11 ELSE StdMax(b33, b22))
  ELSE StdMax(StdMax(b11, b22), b33)

\* 0.9
Point9 == Div(Flt(9), Flt(10))

\* B = A^t A for the scaled entries
GramMatrix3(d0, d1, d2, d3, d4, d5, d6, d7, d8) ==
  [b11 |-> Add(Add(Mul(d0, d0), Mul(d1, d1)), Mul(d2, d2)),
   b12 |-> Add(Add(Mul(d0, d3), Mul(d1, d4)), Mul(d2, d5)),
   b13 |-> Add(Add(Mul(d0, d6), Mul(d1, d7)), Mul(d2, d8)),
   b22 |-> Add(Add(Mul(d3, d3), Mul(d4, d4)), Mul(d5, d5)),
   b23 |-> Add(Add(Mul(d3, d6), Mul(d4, d7)), Mul(d5, d8)),
   b33 |-> Add(Add(Mul(d6, d6), Mul(d7, d7)), Mul(d8, d8))]

\* b11_b22, b22_b33 and b33_b11, the differences of the diagonal entries of B
GramDiffs3(d0, d1, d2, d3, d4, d5, d6, d7, d8) ==
  [b11_b22 |-> Add(Add(Mul(Sub(d0, d3), Add(d0, d3)), Mul(Sub(d1, d4), Add(d1, d4))),
                   Mul(Sub(d2, d5), Add(d2, d5))),
   b22_b33 |-> Add(Add(Mul(Sub(d3, d6), Add(d3, d6)), Mul(Sub(d4, d7), Add(d4, d7))),
                   Mul(Sub(d5, d8), Add(d5, d8))),
   b33_b11 |-> Add(Add(Mul(Sub(d6, d0), Add(d6, d0)), Mul(Sub(d7, d1), Add(d7, d1))),
                   Mul(Sub(d8, d2), Add(d8, d2)))]

\* Eigenvalues2S(b23, b22, b33) and the selection
GramRoot3_reduced(i, red, kdim) ==
  LET Selected(e) ==
        [aa |-> Select3(i, red.b.d1, e.d1, e.d2), path |-> "deflate", kdim |-> kdim]
  IN Selected(Eigenvalues2S(red.b.d23, red.b.d2, red.b.d3))

\* switch (KernelVector3S(mode, b12, b13, b23, c1, c2, c3))
GramRoot3_kernel(i, B, aa, r, kv) ==
  IF kv.kdim = 3 THEN [aa |-> Add(aa, r), path |-> "kdim3"]
  ELSE GramRoot3_reduced(i, Reduce3S(1, B.b11, B.b22, B.b33, B.b12, B.b13, B.b23,
                                     kv.z[1], kv.z[2], kv.z[3]), kv.kdim)

\* c1 -= r; c2 -= r; c3 -= r; mode = 1
GramRoot3_deflate(i, B, aa, c1, c2, c3, r) ==
  GramRoot3_kernel(i, B, aa, r,
                   KernelVector3S(1, B.b12, B.b13, B.b23, Sub(c1, r), Sub(c2, r), Sub(c3, r)))

\* r for the separated root and the return if i asks for that root
GramRoot3_separated(i, B, aa, c1, c2, c3, r, wanted) ==
  IF wanted THEN [aa |-> Add(aa, r), path |-> "separated"]
  ELSE GramRoot3_deflate(i, B, aa, c1, c2, c3, r)

\* GramRoot3_R without the branch fabs(R) <= 0.9
GramRoot3_R_deflating(i, B, aa, c1, c2, c3, sqrtQ, Rn) ==
  IF Lt(Rn, Zero)
  THEN GramRoot3_separated(i, B, aa, c1, c2, c3,
                           Mul(Mul(Neg(Two), sqrtQ), CosThird(Rn, 1)), i = 0)
  ELSE GramRoot3_separated(i, B, aa, c1, c2, c3,
                           Mul(Mul(Neg(Two), sqrtQ), CosThird(Rn, 0)), i = 2)

\* R = R/sqrtQ3; if (fabs(R) <= 0.9) ...
GramRoot3_R(i, B, aa, c1, c2, c3, sqrtQ, Rn) ==
  IF Le(fabs(Rn), Point9)
  THEN [aa |-> Sub(aa, Mul(Mul(Two, sqrtQ),
                           CosThird(Rn, IF i = 2 THEN 0 ELSE IF i = 0 THEN 1 ELSE -1))),
        path |-> "trig"]
  ELSE IF Lt(Rn, Zero)
  THEN GramRoot3_separated(i, B, aa, c1, c2, c3,
                           Mul(Mul(Neg(Two), sqrtQ), CosThird(Rn, 1)), i = 0)
  ELSE GramRoot3_separated(i, B, aa, c1, c2, c3,
                           Mul(Mul(Neg(Two), sqrtQ), CosThird(Rn, 0)), i = 2)

\* if (fabs(R) >= sqrtQ3) ... else ...
GramRoot3_sqrtQ(i, B, aa, c1, c2, c3, R, sqrtQ, sqrtQ3) ==
  IF Ge(fabs(R), sqrtQ3)
  THEN GramRoot3_deflate(i, B, aa, c1, c2, c3,
                         IF Lt(R, Zero) THEN Mul(Two, sqrtQ) ELSE Mul(Neg(Two), sqrtQ))
  ELSE GramRoot3_R(i, B, aa, c1, c2, c3, sqrtQ, Div(R, sqrtQ3))

\* if (Q <= 0.) ... else ...
GramRoot3_QR(i, B, aa, c1, c2, c3, Q, R) ==
  IF Le(Q, Zero) THEN [aa |-> aa, path |-> "Q0"]
  ELSE GramRoot3_sqrtQ(i, B, aa, c1, c2, c3, R, Sqrt(Q), Mul(Q, Sqrt(Q)))

GramRoot3_c(i, B, aa, c1, c2, c3) ==
  GramRoot3_QR(i, B, aa, c1, c2, c3,
               InvariantQ(B.b12, B.b13, B.b23, c1, c2, c3),
               InvariantR(B.b12, B.b13, B.b23, c1, c2, c3))

GramRoot3_B(i, B, x) ==
  GramRoot3_c(i, B, Div(Add(Add(B.b11, B.b22), B.b33), Flt(3)),
              Div(Sub(x.b11_b22, x.b33_b11), Flt(3)),
              Div(Sub(x.b22_b33, x.b11_b22), Flt(3)),
              Div(Sub(x.b33_b11, x.b22_b33), Flt(3)))

\* the eigenvalue aa of B = A^t A selected by i, and the branch taken
GramRoot3(i, d0, d1, d2, d3, d4, d5, d6, d7, d8) ==
  GramRoot3_B(i, GramMatrix3(d0, d1, d2, d3, d4, d5, d6, d7, d8),
              GramDiffs3(d0, d1, d2, d3, d4, d5, d6, d7, d8))

\* have_aa: return sqrt(fabs(aa))*mult;
CalcSingularvalue3_have_aa(mult, g) ==
  [ret |-> Mul(Sqrt(fabs(g.aa)), mult), path |-> g.path]

CalcSingularvalue3_mult(d, i, mult) ==
  CalcSingularvalue3_have_aa(mult,
    GramRoot3(i, Div(d[0], mult), Div(d[1], mult), Div(d[2], mult),
              Div(d[3], mult), Div(d[4], mult), Div(d[5], mult),
              Div(d[6], mult), Div(d[7], mult), Div(d[8], mult)))

\* n == 3 (the else branch); d is the array of entries read
CalcSingularvalue3(d, i) ==
  CalcSingularvalue3_mult(d, i,
    GetScalingFactor(
      MaxAbs(MaxAbs(MaxAbs(MaxAbs(MaxAbs(MaxAbs(MaxAbs(MaxAbs(
        fabs(d[0]), d[1]), d[2]), d[3]), d[4]), d[5]), d[6]), d[7]), d[8])))

(***************************************************************************)
(* DenseMatrix::Rank                                                       *)
(***************************************************************************)
\* 1e-9
Tol9 == Div(One, Flt(1000000000))

Min(a, b) == IF a < b THEN a ELSE b

\* entry (i, j) of the column-major array data of a matrix of height h
Entry(M, i, j) == M.data[i + j * M.h]

RECURSIVE SortDesc(_)
\* a sequence of doubles in non-increasing order
SortDesc(q) ==
  IF Len(q) = 0 THEN << >>
  ELSE LET k == CHOOSE a \in 1..Len(q) : \A b \in 1..Len(q) : Ge(q[a], q[b])
       IN <<q[k]>> \o SortDesc([a \in 1..(Len(q) - 1) |-> IF a < k THEN q[a] ELSE q[a + 1]])

\* dgesvd_ with jobu = jobvt = 'N' on a matrix whose off-diagonal entries are zero:
\* the min(m, n) singular values |a_ii| in non-increasing order
dgesvd(M) == SortDesc([a \in 1..Min(M.h, M.w) |-> fabs(Entry(M, a - 1, a - 1))])

RECURSIVE RankLoop_strict(_, _, _, _)
\* RankLoop with sv(i) > tol for sv(i) >= tol
RankLoop_strict(sv, tol, i, rank) ==
  IF i < Len(sv)
  THEN RankLoop_strict(sv, tol, i + 1, IF Gt(sv[i + 1], tol) THEN rank + 1 ELSE rank)
  ELSE rank

RECURSIVE RankLoop(_, _, _, _)
\* for (int i=0; i < sv.Size(); ++i) if (sv(i) >= tol) ++rank;
RankLoop(sv, tol, i, rank) ==
  IF i < Len(sv)
  THEN RankLoop(sv, tol, i + 1, IF Ge(sv[i + 1], tol) THEN rank + 1 ELSE rank)
  ELSE rank

Rank(M, tol) == RankLoop(dgesvd(M), tol, 0, 0)

(***************************************************************************)
(* The calls                                                               *)
(***************************************************************************)
\* the indices of data that CalcEigenvalues reads when Height() is n
EigReads(n) == IF n = 2 THEN {0, 2, 3} ELSE {0, 3, 4, 6, 7, 8}

\* the indices of data that CalcSingularvalue reads when Height() is n
SvReads(n) == IF n = 1 THEN {0} ELSE IF n = 2 THEN 0..3 ELSE 0..8

\* the indices among reads that lie past the end of the h*w doubles of data
OutOfBounds(M, reads) == {i \in reads : i >= M.h * M.w}

\* const double *d = data, as the reads see it: g gives what a read past the end yields
Fetch(M, g) == [i \in 0..8 |-> IF i < M.h * M.w THEN M.data[i]
                               ELSE IF i \in DOMAIN g THEN g[i] ELSE Zero]

\* the body of CalcEigenvalues after the MFEM_DEBUG check, n = Height()
CalcEigenvalues(n, d, lambda, vec) ==
  IF n = 2 THEN CalcEigenvalues2(d, lambda, vec) ELSE CalcEigenvalues3(d, lambda, vec)

\* the body of CalcSingularvalue after the MFEM_DEBUG check, n = Height()
CalcSingularvalue(n, d, i) ==
  IF n = 1 THEN [ret |-> d[0], path |-> "n1"]
  ELSE IF n = 2 THEN [ret |-> CalcSingularvalue2(d, i), path |-> "n2"]
  ELSE CalcSingularvalue3(d, i)

\* EigShapeError without the test Height() > 3
EigShapeError_open(M) == M.h # M.w \/ M.h < 2

\* if (Height() != Width() || Height() < 2 || Height() > 3)
EigShapeError(M) == M.h # M.w \/ M.h < 2 \/ M.h > 3

\* if (Height() != Width() || Height() < 1 || Height() > 3)
SvShapeError(M) == M.h # M.w \/ M.h < 1 \/ M.h > 3

(***************************************************************************)
(* The inputs                                                              *)
(***************************************************************************)
\* largest absolute value of an integer entry of the grid matrices
MaxEntry == 1

Entries == (-MaxEntry)..MaxEntry

\* the signs, for the entries that stay small
Signs == {-1, 0, 1}

\* the h x w matrix with the entries q (column-major, as DenseMatrix stores them)
Mat(h, w, q) == [h |-> h, w |-> w, data |-> [i \in 0..(h * w - 1) |-> q[i + 1]]]

\* x * 2^j
Scaled(x, j) == IF x[1] = 0 THEN x ELSE <<x[1], x[2] + j>>

ScaledMat(M, j) == [M EXCEPT !.data = [i \in DOMAIN M.data |-> Scaled(M.data[i], j)]]

\* the symmetric 3x3 matrix of the doubles d11, d22, d33, d12, d13, d23
Sym3(d11, d22, d33, d12, d13, d23) ==
  Mat(3, 3, <<d11, d12, d13, d12, d22, d23, d13, d23, d33>>)

Sym2(d1, d12, d2) == Mat(2, 2, <<d1, d12, d12, d2>>)

Sym3Grid ==
  {Sym3(Flt(a), Flt(b), Flt(c), Flt(d), Flt(e), Flt(f)) :
     a \in Entries, b \in Entries, c \in Signs, d \in Signs, e \in {0, 1}, f \in {0, 1}}

Sym2Grid == {Sym2(Flt(a), Flt(b), Flt(c)) : a, b, c \in (-MaxEntry - 1)..(MaxEntry + 1)}

\* the matrices the text of the design names
Diag123 == Sym3(Flt(1), Flt(2), Flt(3), Zero, Zero, Zero)

Diag555 == Sym3(Flt(5), Flt(5), Flt(5), Zero, Zero, Zero)

Ones0 == Sym3(Zero, Zero, Zero, One, One, One)

A2112 == Sym2(Flt(2), Flt(1), Flt(2))

\* the k-th double below 1
Below1(k) == Norm(2^MantissaBits - k, -MantissaBits)

\* t quarters of the spacing of the doubles below 1
Tiny(t) == Norm(t, -(MantissaBits + 2))

\* symmetric matrices with nearly equal eigenvalues
NearDiag3 ==
  {Sym3(a, b, c, d, Zero, f) : a \in {Below1(1), One}, b \in {Below1(1), One},
                               c \in {Below1(1), One}, d \in {Zero, Tiny(1)},
                               f \in {Zero, Tiny(1)}}

\* a multiple x I of the identity for which (x + x + x)/3 is not x
Scalar3 == Sym3(Below1(2), Below1(2), Below1(2), Zero, Zero, Zero)

\* the exponents j of the scale factors 2^j; the last one takes an entry 1 to the
\* largest exponent of a double
ScaleExps == {-3, 1, max_exponent - 1}

\* matrices with largest |entry| 1 and eigenvalues inside (-2, 2), so that every
\* scaled matrix and its eigenvalues are finite doubles
ScaleBase ==
  {Sym3(One, Neg(One), Zero, One, Zero, One),
   Sym3(One, Half, Neg(One), Zero, Zero, Zero),
   Sym3(Zero, Zero, One, Half, Half, Zero)}

EigScaled == {ScaledMat(A, j) : A \in ScaleBase, j \in ScaleExps}

\* symmetric matrices of order 2 and 3
EigInputs ==
  Sym3Grid \cup Sym2Grid \cup NearDiag3 \cup EigScaled \cup {Diag123, Diag555, Ones0, Scalar3}

\* matrices that are not square, or of an order that is not 2 or 3
EigBadShapes ==
  {Mat(1, 1, <<Flt(2)>>),
   Mat(2, 3, <<Flt(2), Flt(1), Flt(1), Flt(2), Flt(3), Flt(3)>>),
   Mat(3, 2, <<Flt(1), Zero, Zero, Zero, Flt(2), Zero>>),
   Mat(4, 4, <<Flt(1), Zero, Zero, Zero, Zero, Flt(2), Zero, Zero,
               Zero, Zero, Flt(3), Zero, Zero, Zero, Zero, Flt(4)>>)}

Sv1 == {Mat(1, 1, <<Flt(a)>>) : a \in (-MaxEntry - 2)..(MaxEntry + 2)}

Sv2Grid ==
  {Mat(2, 2, <<Flt(a), Flt(b), Flt(c), Flt(d)>>) :
     a \in Entries, b \in Entries, c \in Signs, d \in Signs}

Sv3Grid ==
  {Mat(3, 3, <<Flt(a), Flt(g), Zero, Flt(e), Flt(b), Zero, Zero, Flt(f), Flt(c)>>) :
     a \in Entries, b \in Entries, c \in Signs, e \in {0, 1}, f \in {0, 1}, g \in {0, 1}}

\* matrices near the identity, whose Gram matrix has nearly equal eigenvalues
SvNear ==
  {Mat(3, 3, <<Below1(2), Tiny(3 * a), Tiny(3 * b), Zero, One, Zero,
               Tiny(3 * c), Tiny(3 * e), Below1(2)>>) : a, b, c, e \in {-1, 1}}

SvInputs == Sv1 \cup Sv2Grid \cup Sv3Grid \cup SvNear \cup {Diag123}

\* single columns of height 2 and 3, a row, and other shapes outside N x N, N = 1, 2, 3
SvBadShapes ==
  {Mat(2, 1, <<Flt(3), Flt(4)>>),
   Mat(3, 1, <<Flt(1), Flt(2), Flt(2)>>),
   Mat(1, 2, <<Flt(3), Flt(4)>>),
   Mat(2, 3, <<Flt(2), Flt(1), Flt(1), Flt(2), Flt(3), Flt(3)>>),
   Mat(4, 4, <<Flt(1), Zero, Zero, Zero, Zero, Flt(2), Zero, Zero,
               Zero, Zero, Flt(3), Zero, Zero, Zero, Zero, Flt(4)>>)}

\* what a read past the end of data may yield
Garbage == {Zero, Flt(3)}

\* h x w matrices whose entries off the diagonal are zero
DiagVals == {Zero, Tol9, One, Neg(Two)}

DiagMat(h, w, q) ==
  [h |-> h, w |-> w,
   data |-> [i \in 0..(h * w - 1) |->
               IF i % h = i \div h /\ i % h < Len(q) THEN q[(i % h) + 1] ELSE Zero]]

RankInputs ==
  {DiagMat(h, w, q) : h \in 1..3, w \in 1..3, q \in [1..3 -> DiagVals]}

RankTols == {Tol9, One}

\* the arguments of GetScalingFactor: zero, a negative value, and the doubles of some
\* mantissas whose exponent, as frexp gives it, is e
GsfExps == {-max_exponent, -1, 0, 1, 2, max_exponent - 1, max_exponent}

GsfMants == {2^(MantissaBits - 1), 2^(MantissaBits - 1) + 1, 3 * 2^(MantissaBits - 2),
             2^MantissaBits - 1}

GsfInputs ==
  {Zero, Neg(One)} \cup {<<m, e - MantissaBits>> : m \in GsfMants, e \in GsfExps}

(***************************************************************************)
(* The state                                                               *)
(***************************************************************************)
VARIABLES
  MFEM_DEBUG,       \* the build defines MFEM_DEBUG
  MFEM_USE_LAPACK,  \* the build defines MFEM_USE_LAPACK
  pc,               \* "idle", "returned" (the call is back) or "aborted"
  op,               \* the function called
  mat,              \* the DenseMatrix of the call (height, width, data)
  arg,              \* i of CalcSingularvalue, tol of Rank, d_max of GetScalingFactor
  oob,              \* what the reads past the end of data yielded
  lambda,           \* the caller's array lambda
  vec,              \* the caller's array vec
  ret,              \* the value returned
  aux,              \* the branch taken and the intermediate values of the call
  heap,             \* concurrent calls: each caller's matrix and arrays lambda, vec
  thread,           \* concurrent calls: each thread's position, call and return value
  locals,           \* concurrent calls: the local copies d of the entries, by storage
  call,             \* control flow: the function called, the order n, the index i
  stack,            \* control flow: the frames, each with its function and its line
  steps,            \* control flow: the steps taken since the call began
  kcall,            \* kernel: the function called, its mode and its arguments
  kres              \* kernel: what the function returned

vars ==
  <<MFEM_DEBUG, MFEM_USE_LAPACK, pc, op, mat, arg, oob, lambda, vec, ret, aux,
    heap, thread, locals, call, stack, steps, kcall, kres>>

\* the state of a call of a function of the kernel
kernel == <<kcall, kres>>

\* the state of the control flow of a call
flow == <<call, stack, steps>>

\* the state of the concurrent calls
concurrent == <<heap, thread, locals>>

\* the state of the single caller
sequential == <<pc, op, mat, arg, oob, lambda, vec, ret, aux>>

\* the threads that call concurrently
Threads == {1, 2}

build == <<MFEM_DEBUG, MFEM_USE_LAPACK>>

NoMat == [h |-> 0, w |-> 0, data |-> << >>]

NoArg == << >>

NoRet == Unwritten

NoAux == [path |-> "none"]

\* a caller's memory before a call: no matrix, nothing written to lambda and vec
NoHeap == [mat |-> NoMat, lambda |-> lambda0, vec |-> vec0]

\* a thread outside a call
NoCall == [pc |-> "idle", op |-> "none", i |-> NoArg, given |-> NoMat, ret |-> NoRet]

\* local variables that nothing has been assigned to
NoLocals == [k \in 0..8 |-> Unwritten]

\* no call of a function of the kernel
NoKernel == [fn |-> "none", mode |-> 0, a |-> << >>]

NoResult == [fault |-> FALSE]

\* no call whose control flow is followed
NoFlow == [op |-> "none", n |-> 0, i |-> 0, mode |-> 0]

Init ==
  /\ MFEM_DEBUG \in BOOLEAN
  /\ MFEM_USE_LAPACK \in BOOLEAN
  /\ pc = "idle"
  /\ op = "none"
  /\ mat = NoMat
  /\ arg = NoArg
  /\ oob = << >>
  /\ lambda = lambda0
  /\ vec = vec0
  /\ ret = NoRet
  /\ aux = NoAux
  /\ heap = [t \in Threads |-> NoHeap]
  /\ thread = [t \in Threads |-> NoCall]
  /\ locals = [t \in Threads |-> NoLocals]
  /\ call = NoFlow
  /\ stack = << >>
  /\ steps = 0
  /\ kcall = NoKernel
  /\ kres = NoResult

\* mfem_error(msg): the message is printed and the program aborts
mfem_error(name, M, a) ==
  /\ pc' = "aborted"
  /\ op' = name
  /\ mat' = M
  /\ arg' = a
  /\ aux' = [path |-> "mfem_error"]
  /\ UNCHANGED <<build, concurrent, flow, kernel, oob, lambda, vec, ret>>

\* void DenseMatrix::CalcEigenvalues(double *lambda, double *vec) const
CallCalcEigenvalues ==
  /\ pc = "idle"
  /\ \E M \in EigInputs \cup EigBadShapes :
       IF MFEM_DEBUG /\ EigShapeError(M)
       THEN mfem_error("CalcEigenvalues", M, NoArg)
       ELSE \E g \in [OutOfBounds(M, EigReads(M.h)) -> Garbage] :
              \E r \in {CalcEigenvalues(M.h, Fetch(M, g), lambda, vec)} :
                 /\ pc' = "returned"
                 /\ op' = "CalcEigenvalues"
                 /\ mat' = M
                 /\ oob' = g
                 /\ lambda' = r.lambda
                 /\ vec' = r.vec
                 /\ aux' = r
                 /\ UNCHANGED <<build, concurrent, flow, kernel, arg, ret>>

\* double DenseMatrix::CalcSingularvalue(const int i) const
CallCalcSingularvalue ==
  /\ pc = "idle"
  /\ \E M \in SvInputs \cup SvBadShapes :
       \E i \in (IF SvShapeError(M) THEN {0} ELSE 0..(M.h - 1)) :
         IF MFEM_DEBUG /\ SvShapeError(M)
         THEN mfem_error("CalcSingularvalue", M, i)
         ELSE \E g \in [OutOfBounds(M, SvReads(M.h)) -> Garbage] :
                \E r \in {CalcSingularvalue(M.h, Fetch(M, g), i)} :
                   /\ pc' = "returned"
                   /\ op' = "CalcSingularvalue"
                   /\ mat' = M
                   /\ arg' = i
                   /\ oob' = g
                   /\ ret' = r.ret
                   /\ aux' = r
                   /\ UNCHANGED <<build, concurrent, flow, kernel, lambda, vec>>

\* int DenseMatrix::Rank(double tol) const, with SingularValues(sv) inside
CallRank ==
  /\ pc = "idle"
  /\ \E M \in RankInputs, tol \in RankTols :
       IF ~MFEM_USE_LAPACK
       THEN mfem_error("Rank", M, tol)
       ELSE /\ pc' = "returned"
            /\ op' = "Rank"
            /\ mat' = M
            /\ arg' = tol
            /\ ret' = Rank(M, tol)
            /\ aux' = [path |-> "Rank", sv |-> dgesvd(M)]
            /\ UNCHANGED <<build, concurrent, flow, kernel, oob, lambda, vec>>

\* inline void GetScalingFactor(const double &d_max, double &mult)
CallGetScalingFactor ==
  /\ pc = "idle"
  /\ \E d_max \in GsfInputs :
       /\ pc' = "returned"
       /\ op' = "GetScalingFactor"
       /\ arg' = d_max
       /\ ret' = GetScalingFactor(d_max)
       /\ aux' = [path |-> "GetScalingFactor"]
       /\ UNCHANGED <<build, concurrent, flow, kernel, mat, oob, lambda, vec>>

\* the caller takes the results and is ready for the next call
Return ==
  /\ pc = "returned"
  /\ pc' = "idle"
  /\ op' = "none"
  /\ mat' = NoMat
  /\ arg' = NoArg
  /\ oob' = << >>
  /\ lambda' = lambda0
  /\ vec' = vec0
  /\ ret' = NoRet
  /\ aux' = NoAux
  /\ UNCHANGED <<build, concurrent, flow, kernel>>

Next ==
  \/ CallCalcEigenvalues
  \/ CallCalcSingularvalue
  \/ CallRank
  \/ CallGetScalingFactor
  \/ Return

Spec == Init /\ [][Next]_vars

(***************************************************************************)
(* Concurrent calls on disjoint matrices and arrays                        *)
(***************************************************************************)
\* the matrices the threads call CalcEigenvalues and CalcSingularvalue on
ThreadEigInputs == {Diag123, Ones0, A2112, Scalar3}

ThreadSvInputs == {Diag123, A2112}

\* StorageOf for local variables declared static: one storage for all the calls
StorageOf_static(t) == CHOOSE u \in Threads : \A w \in Threads : u <= w

\* the storage of the local variables of the call of thread t: automatic, one per call
StorageOf(t) == t

\* the entries of data the branch for order n copies into local variables
EntriesRead(name, n) == IF name = "CalcEigenvalues" THEN EigReads(n) ELSE SvReads(n)

\* the caller of thread t sets up its matrix M and its arrays and calls name
Enter(t, name, M, i) ==
  /\ thread[t].pc = "idle"
  /\ heap' = [heap EXCEPT ![t] = [mat |-> M, lambda |-> lambda0, vec |-> vec0]]
  /\ thread' = [thread EXCEPT ![t] = [pc |-> "entered", op |-> name, i |-> i,
                                      given |-> M, ret |-> NoRet]]
  /\ UNCHANGED <<build, sequential, flow, kernel, locals>>

\* const double *d = data; double d0 = d[0]; ... : the entries go to local variables
ReadEntries(t) ==
  /\ thread[t].pc = "entered"
  /\ locals' = [locals EXCEPT ![StorageOf(t)] =
                  [k \in 0..8 |-> IF k \in EntriesRead(thread[t].op, heap[t].mat.h)
                                  THEN heap[t].mat.data[k] ELSE @[k]]]
  /\ thread' = [thread EXCEPT ![t].pc = "read"]
  /\ UNCHANGED <<build, sequential, flow, kernel, heap>>

\* CalcEigenvalues computes on the local variables and stores into lambda and vec
StoreArrays(t) ==
  /\ thread[t].pc = "read"
  /\ thread[t].op = "CalcEigenvalues"
  /\ \E r \in {CalcEigenvalues(heap[t].mat.h, locals[StorageOf(t)],
                                 heap[t].lambda, heap[t].vec)} :
       heap' = [heap EXCEPT ![t].lambda = r.lambda, ![t].vec = r.vec]
  /\ thread' = [thread EXCEPT ![t].pc = "done"]
  /\ UNCHANGED <<build, sequential, flow, kernel, locals>>

\* CalcSingularvalue computes on the local variables and returns the value
ReturnValue(t) ==
  /\ thread[t].pc = "read"
  /\ thread[t].op = "CalcSingularvalue"
  /\ thread' = [thread EXCEPT ![t].pc = "done",
                              ![t].ret = CalcSingularvalue(heap[t].mat.h,
                                                           locals[StorageOf(t)],
                                                           thread[t].i).ret]
  /\ UNCHANGED <<build, sequential, flow, kernel, heap, locals>>

\* the caller has taken the results; the local variables of the call are gone
Leave(t) ==
  /\ thread[t].pc = "done"
  /\ heap' = [heap EXCEPT ![t] = NoHeap]
  /\ thread' = [thread EXCEPT ![t] = NoCall]
  /\ locals' = [locals EXCEPT ![StorageOf(t)] = NoLocals]
  /\ UNCHANGED <<build, sequential, flow, kernel>>

NextThreads ==
  \E t \in Threads :
    \/ \E M \in ThreadEigInputs : Enter(t, "CalcEigenvalues", M, NoArg)
    \/ \E M \in ThreadSvInputs, i \in {0, 1} : Enter(t, "CalcSingularvalue", M, i)
    \/ ReadEntries(t)
    \/ StoreArrays(t)
    \/ ReturnValue(t)
    \/ Leave(t)

SpecThreads == Init /\ [][NextThreads]_vars

(***************************************************************************)
(* The control flow of a call                                              *)
(*                                                                         *)
(* A program point is a line of densemat.cpp; an edge <<a, b>> says that   *)
(* control can pass from line a to line b inside one function.  The tests  *)
(* of n, i and mode are decided by the call; a comparison of doubles can   *)
(* go either way.  A line without an edge out of it returns.               *)
(***************************************************************************)
\* KernelVector3G_aux with the label done_column_1 above the test of s1
KernelVector3G_aux_flow_back ==
  {<<1117, 1120>>, <<1120, 1124>>, <<1120, 1179>>, <<1124, 1130>>,
   <<1130, 1132>>, <<1130, 1149>>, <<1132, 1135>>, <<1132, 1166>>,
   <<1135, 1146>>, <<1146, 1120>>,
   <<1149, 1152>>, <<1149, 1166>>, <<1152, 1163>>, <<1163, 1120>>,
   <<1166, 1179>>,
   <<1179, 1184>>, <<1184, 1195>>, <<1184, 1205>>, <<1195, 1209>>, <<1205, 1209>>,
   <<1209, 1211>>}

\* inline int KernelVector3G_aux(...): 1146 and 1163 are goto done_column_1, 1179 is
\* the label
KernelVector3G_aux_flow ==
  {<<1117, 1120>>, <<1120, 1124>>, <<1120, 1179>>, <<1124, 1130>>,
   <<1130, 1132>>, <<1130, 1149>>, <<1132, 1135>>, <<1132, 1166>>,
   <<1135, 1146>>, <<1146, 1179>>,
   <<1149, 1152>>, <<1149, 1166>>, <<1152, 1163>>, <<1163, 1179>>,
   <<1166, 1179>>,
   <<1179, 1184>>, <<1184, 1195>>, <<1184, 1205>>, <<1195, 1209>>, <<1205, 1209>>,
   <<1209, 1211>>}

\* inline int KernelVector3S(mode, ...): 1248, 1253 and 1260 are return 3, 1309 is the
\* call of KernelVector3G_aux, 1322 is return row
KernelVector3S_flow(mode) ==
  {<<1230, 1240>>, <<1240, 1244>>, <<1244, 1247>>, <<1244, 1252>>, <<1244, 1259>>,
   <<1247, 1248>>, <<1247, 1266>>, <<1252, 1253>>, <<1252, 1254>>,
   <<1259, 1260>>, <<1259, 1261>>, <<1254, 1266>>, <<1261, 1266>>}
    \cup (IF mode = 0 THEN {<<1266, 1268>>, <<1268, 1280>>}
                      ELSE {<<1266, 1275>>, <<1275, 1280>>})
    \cup {<<1280, 1283>>, <<1280, 1289>>, <<1280, 1300>>,
          <<1283, 1309>>, <<1289, 1309>>, <<1300, 1309>>,
          <<1309, 1312>>, <<1312, 1315>>, <<1312, 1319>>, <<1312, 1322>>,
          <<1315, 1322>>, <<1319, 1322>>}

\* double DenseMatrix::CalcSingularvalue(const int i) const: 1644, 1653, 1662 and 1693
\* are goto have_aa, 1737 is the label, 1689 is the call of KernelVector3S
CalcSingularvalue_flow(n, i) ==
  (IF n = 1 THEN {<<1465, 1467>>}
   ELSE IF n = 2 THEN {<<1465, 1469>>, <<1469, 1472>>}
   ELSE {<<1465, 1469>>, <<1469, 1515>>})
    \cup {<<1472, 1483>>, <<1483, 1499>>, <<1499, 1500>>, <<1499, 1502>>,
          <<1502, 1504>>, <<1502, 1508>>}
    \cup (IF i = 0 THEN {<<1504, 1505>>, <<1508, 1509>>}
                   ELSE {<<1504, 1506>>, <<1508, 1510>>})
    \cup {<<1515, 1530>>, <<1530, 1575>>, <<1575, 1581>>, <<1581, 1584>>, <<1581, 1612>>,
          <<1584, 1737>>, <<1612, 1618>>, <<1618, 1620>>, <<1618, 1633>>,
          <<1620, 1622>>, <<1620, 1627>>, <<1622, 1670>>, <<1627, 1670>>,
          <<1633, 1636>>, <<1636, 1638>>, <<1636, 1647>>, <<1638, 1644>>, <<1644, 1737>>,
          <<1647, 1650>>, <<1647, 1659>>}
    \cup (IF i = 0 THEN {<<1650, 1653>>} ELSE {<<1650, 1670>>})
    \cup (IF i = 2 THEN {<<1659, 1662>>} ELSE {<<1659, 1670>>})
    \cup {<<1653, 1737>>, <<1662, 1737>>, <<1670, 1689>>, <<1689, 1693>>, <<1689, 1706>>,
          <<1693, 1737>>, <<1706, 1714>>, <<1714, 1716>>, <<1716, 1737>>, <<1737, 1739>>}

\* void DenseMatrix::CalcEigenvalues(double *lambda, double *vec) const: 1883 is
\* goto done_3d, 1974 is the label, 1875 is the call of KernelVector3S
CalcEigenvalues_flow(n) ==
  {<<1750, 1753>>}
    \cup (IF n = 2 THEN {<<1753, 1755>>} ELSE {<<1753, 1782>>})
    \cup {<<1755, 1760>>, <<1760, 1761>>, <<1761, 1763>>, <<1761, 1772>>,
          <<1763, 1979>>, <<1772, 1979>>,
          <<1782, 1798>>, <<1798, 1804>>, <<1804, 1814>>, <<1814, 1816>>, <<1814, 1823>>,
          <<1816, 1974>>, <<1823, 1828>>, <<1828, 1830>>, <<1828, 1843>>,
          <<1830, 1832>>, <<1830, 1837>>, <<1832, 1855>>, <<1837, 1855>>,
          <<1843, 1845>>, <<1845, 1847>>, <<1845, 1851>>, <<1847, 1855>>, <<1851, 1855>>,
          <<1855, 1875>>, <<1875, 1879>>, <<1875, 1897>>, <<1879, 1883>>, <<1883, 1974>>,
          <<1897, 1906>>, <<1906, 1910>>, <<1910, 1912>>, <<1910, 1933>>,
          <<1912, 1914>>, <<1912, 1918>>, <<1918, 1920>>, <<1918, 1926>>,
          <<1933, 1935>>, <<1933, 1939>>, <<1939, 1941>>, <<1939, 1947>>,
          <<1914, 1953>>, <<1920, 1953>>, <<1926, 1953>>, <<1935, 1953>>,
          <<1941, 1953>>, <<1947, 1953>>, <<1953, 1961>>,
          <<1961, 1963>>, <<1961, 1968>>, <<1961, 1974>>, <<1963, 1974>>, <<1968, 1974>>,
          <<1974, 1975>>, <<1975, 1979>>}

\* the functions whose control flow is followed, and the first line of each
FlowFunctions == {"CalcEigenvalues", "CalcSingularvalue", "KernelVector3S", "KernelVector3G_aux"}

EntryLine(fn) ==
  CASE fn = "CalcEigenvalues" -> 1750
    [] fn = "CalcSingularvalue" -> 1465
    [] fn = "KernelVector3S" -> 1230
    [] fn = "KernelVector3G_aux" -> 1117

\* the edges of fn in the call c
EdgesOf(fn, c) ==
  CASE fn = "CalcEigenvalues" -> CalcEigenvalues_flow(c.n)
    [] fn = "CalcSingularvalue" -> CalcSingularvalue_flow(c.n, c.i)
    [] fn = "KernelVector3S" -> KernelVector3S_flow(c.mode)
    [] fn = "KernelVector3G_aux" -> KernelVector3G_aux_flow

\* the lines control can pass to from line
Successors(edges, line) == {e[2] : e \in {x \in edges : x[1] = line}}

\* the function called at line of fn: KernelVector3S by the two members,
\* KernelVector3G_aux by KernelVector3S; the other helpers have neither a branch back
\* nor a call of these and count as part of their line
Callee(fn, line) ==
  IF (fn = "CalcEigenvalues" /\ line = 1875) \/ (fn = "CalcSingularvalue" /\ line = 1689)
  THEN "KernelVector3S"
  ELSE IF fn = "KernelVector3S" /\ line = 1309 THEN "KernelVector3G_aux"
  ELSE "none"

\* the calls followed: CalcEigenvalues of order 2 and 3 (mode = 0) and
\* CalcSingularvalue of order 1, 2 and 3 with i = 0, 1, 2 (mode = 1)
FlowCalls ==
  {[op |-> "CalcEigenvalues", n |-> n, i |-> 0, mode |-> 0] : n \in {2, 3}}
    \cup {[op |-> "CalcSingularvalue", n |-> n, i |-> i, mode |-> 1] :
            n \in {1, 2, 3}, i \in {0, 1, 2}}

\* all the edges of all the functions
AllEdges == UNION {EdgesOf(fn, c) : fn \in FlowFunctions, c \in FlowCalls}

\* a number of steps no call can take: each edge once, and a call and a return for each
StepBound == 2 * Cardinality(AllEdges)

\* the steps after which the model stops following a call
StepCap == StepBound + 2

Frame(fn, line, from) == [fn |-> fn, line |-> line, from |-> from, called |-> FALSE]

Top == stack[Len(stack)]

\* the call begins
FlowEnter ==
  /\ call = NoFlow
  /\ \E c \in FlowCalls :
       /\ call' = c
       /\ stack' = <<Frame(c.op, EntryLine(c.op), 0)>>
  /\ steps' = 0
  /\ UNCHANGED <<build, sequential, concurrent, kernel>>

\* control passes to a next line of the function on top
FlowJump ==
  /\ stack # << >>
  /\ steps < StepCap
  /\ Callee(Top.fn, Top.line) = "none" \/ Top.called
  /\ \E next \in Successors(EdgesOf(Top.fn, call), Top.line) :
       stack' = [stack EXCEPT ![Len(stack)] = Frame(Top.fn, next, Top.line)]
  /\ steps' = steps + 1
  /\ UNCHANGED <<build, sequential, concurrent, kernel, call>>

\* the line on top calls a function
FlowCall ==
  /\ stack # << >>
  /\ steps < StepCap
  /\ Callee(Top.fn, Top.line) # "none"
  /\ ~Top.called
  /\ stack' = Append([stack EXCEPT ![Len(stack)].called = TRUE],
                     Frame(Callee(Top.fn, Top.line), EntryLine(Callee(Top.fn, Top.line)), 0))
  /\ steps' = steps + 1
  /\ UNCHANGED <<build, sequential, concurrent, kernel, call>>

\* the function on top returns
FlowReturn ==
  /\ stack # << >>
  /\ steps < StepCap
  /\ Successors(EdgesOf(Top.fn, call), Top.line) = {}
  /\ stack' = SubSeq(stack, 1, Len(stack) - 1)
  /\ steps' = steps + 1
  /\ UNCHANGED <<build, sequential, concurrent, kernel, call>>

\* the caller goes on
FlowLeave ==
  /\ call # NoFlow
  /\ stack = << >>
  /\ call' = NoFlow
  /\ steps' = 0
  /\ UNCHANGED <<build, sequential, concurrent, kernel, stack>>

\* a step of the call
FlowStep == FlowJump \/ FlowCall \/ FlowReturn

NextFlow ==
  \/ FlowEnter
  \/ FlowJump
  \/ FlowCall
  \/ FlowReturn
  \/ FlowLeave

\* a call that has begun keeps being executed
SpecFlow == Init /\ [][NextFlow]_vars /\ WF_vars(FlowStep)

(***************************************************************************)
(* Calls of the functions of the kernel                                    *)
(***************************************************************************)
Modes == {0, 1}

\* the entries of the 2x2 matrices and of the vectors to normalize
KernelEntries == (-MaxEntry - 1)..(MaxEntry + 1)

\* (d1, d12, d21, d2) of KernelVector2G
Kernel2GInputs ==
  {<<Flt(a), Flt(b), Flt(c), Flt(d)>> : a, b, c, d \in KernelEntries}

\* (d12, d13, d23, d1, d2, d3) of KernelVector3S
Kernel3SInputs ==
  {<<Flt(a), Flt(b), Flt(c), Flt(d), Flt(e), Flt(f)>> :
     a \in Signs, b \in Signs, c \in Signs, d \in Signs, e \in Signs, f \in Signs}

\* (x1, x2, x3) of vec_normalize3
NormalizeInputs == {<<Flt(a), Flt(b), Flt(c)>> : a, b, c \in KernelEntries}

\* (d1, d2, d3, d12, d13, d23) of the matrices Reduce3S is called on: diag(1, 2, 3),
\* a matrix with the eigenvalues 1, 3, 3 and the matrix with the eigenvalues -1, -1, 2
ReduceMatrices == {<<1, 2, 3, 0, 0, 0>>, <<2, 2, 3, 1, 0, 0>>, <<0, 0, 0, 1, 1, 1>>}

\* the directions of the vectors z Reduce3S is called on
ReduceDirections ==
  {<<a, b, c>> : a, b, c \in Signs} \cup {<<1, 1, -2>>, <<-1, -1, 2>>}

\* z is the direction u as it is, or vec_normalize3 of it
ReduceVector(u, unit) ==
  IF unit THEN vec_normalize3(Flt(u[1]), Flt(u[2]), Flt(u[3]))
  ELSE <<Flt(u[1]), Flt(u[2]), Flt(u[3])>>

\* (d1, d2, d3, d12, d13, d23, z1, z2, z3) of Reduce3S
ReduceArgs(A, u, unit) ==
  <<Flt(A[1]), Flt(A[2]), Flt(A[3]), Flt(A[4]), Flt(A[5]), Flt(A[6])>>
    \o ReduceVector(u, unit)

ReduceInputs ==
  {ReduceArgs(A, u, unit) : A \in ReduceMatrices, u \in ReduceDirections, unit \in BOOLEAN}

\* a division by zero: the result is not a finite double
Fault == [fault |-> TRUE]

\* the function has returned r
Result(r) == [fault |-> FALSE, r |-> r]

\* inline void vec_normalize3(x1, x2, x3, n1, n2, n3)
Call_vec_normalize3 ==
  /\ kcall = NoKernel
  /\ \E a \in NormalizeInputs :
       /\ kcall' = [fn |-> "vec_normalize3", mode |-> 0, a |-> a]
       /\ \E r \in {IF HasZero(vec_normalize3_divisors(a[1], a[2], a[3])) THEN Fault
                    ELSE Result(vec_normalize3(a[1], a[2], a[3]))} :
            kres' = r
  /\ UNCHANGED <<build, sequential, concurrent, flow>>

\* inline bool KernelVector2G(mode, d1, d12, d21, d2)
CallKernelVector2G ==
  /\ kcall = NoKernel
  /\ \E mode \in Modes, a \in Kernel2GInputs :
       /\ kcall' = [fn |-> "KernelVector2G", mode |-> mode, a |-> a]
       /\ \E r \in {IF HasZero(KernelVector2G_divisors(mode, a[1], a[2], a[3], a[4]))
                    THEN Fault
                    ELSE Result(KernelVector2G(mode, a[1], a[2], a[3], a[4]))} :
            kres' = r
  /\ UNCHANGED <<build, sequential, concurrent, flow>>

\* inline int KernelVector3S(mode, d12, d13, d23, d1, d2, d3), with the call of
\* KernelVector3G_aux inside
CallKernelVector3S ==
  /\ kcall = NoKernel
  /\ \E mode \in Modes, a \in Kernel3SInputs :
       /\ kcall' = [fn |-> "KernelVector3S", mode |-> mode, a |-> a]
       /\ \E r \in {IF HasZero(KernelVector3S_divisors(mode, a[1], a[2], a[3],
                                                       a[4], a[5], a[6]))
                    THEN Fault
                    ELSE Result(KernelVector3S(mode, a[1], a[2], a[3], a[4], a[5], a[6]))} :
            kres' = r
  /\ UNCHANGED <<build, sequential, concurrent, flow>>

\* inline int Reduce3S(mode, d1, d2, d3, d12, d13, d23, z1, z2, z3, v1, v2, v3, g)
CallReduce3S ==
  /\ kcall = NoKernel
  /\ \E mode \in Modes, a \in ReduceInputs :
       /\ kcall' = [fn |-> "Reduce3S", mode |-> mode, a |-> a]
       /\ \E r \in {IF HasZero(Reduce3S_divisors(mode, a[7], a[8], a[9])) THEN Fault
                    ELSE Result(Reduce3S(mode, a[1], a[2], a[3], a[4], a[5], a[6],
                                         a[7], a[8], a[9]))} :
            kres' = r
  /\ UNCHANGED <<build, sequential, concurrent, flow>>

\* the caller goes on with what the function returned
KernelReturn ==
  /\ kcall # NoKernel
  /\ kcall' = NoKernel
  /\ kres' = NoResult
  /\ UNCHANGED <<build, sequential, concurrent, flow>>

NextKernel ==
  \/ Call_vec_normalize3
  \/ CallKernelVector2G
  \/ CallKernelVector3S
  \/ CallReduce3S
  \/ KernelReturn

SpecKernel == Init /\ [][NextKernel]_vars

(***************************************************************************)
(* Properties of CalcEigenvalues                                           *)
(***************************************************************************)
\* CalcEigenvalues has returned from a call on a square matrix of order 2 or 3
EigReturned == pc = "returned" /\ op = "CalcEigenvalues" /\ ~EigShapeError(mat)

EigReturned3 == EigReturned /\ mat.h = 3

\* column a of the 3x3 array vec
Column3(a) == <<vec[3 * a], vec[3 * a + 1], vec[3 * a + 2]>>

\* column a of the 2x2 array vec
Column2(a) == <<vec[2 * a], vec[2 * a + 1]>>

\* C1: for a symmetric matrix of order 2 or 3 CalcEigenvalues returns lambda in
\* non-decreasing order, lambda[0] <= lambda[1] (<= lambda[2]), on the Q <= 0 path,
\* on the kdim == 3 path and after the six-way sort that follows the deflation
C1_NonDecreasing ==
  EigReturned => \A a \in 0..(mat.h - 2) : Le(lambda[a], lambda[a + 1])

\* a call where the sort moved the deflated entry off slot 0 and the eigenvalues differ
C1_Witness ==
  /\ EigReturned3
  /\ aux.path = "deflate"
  /\ aux.slot[1] # 0
  /\ Lt(lambda[0], lambda[1])
  /\ Lt(lambda[1], lambda[2])

\* the Q <= 0 path, the kdim == 3 path and the order 2 branch return ordered values too
C1_PathQ0 == EigReturned3 /\ aux.path = "Q0" /\ mat = Diag555

C1_PathKdim3 == EigReturned3 /\ aux.path = "kdim3"

C1_PathOrder2 == EigReturned /\ mat = A2112 /\ lambda[0] = One /\ lambda[1] = Flt(3)

\* P Q y for the reflection Q = I - g v v^t and the exchange P of the entries 1 and k
BackTransformed(k, v, g, y) ==
  LET Exchanged(q) == CASE k = 1 -> q
                        [] k = 2 -> <<q[2], q[1], q[3]>>
                        [] k = 3 -> <<q[3], q[2], q[1]>>
      Reflected(t) == Exchanged(<<Sub(y[1], Mul(v[1], t)), Sub(y[2], Mul(v[2], t)),
                                  Sub(y[3], Mul(v[3], t))>>)
  IN Reflected(Mul(g, Add(Mul(v[2], y[2]), Mul(v[3], y[3]))))

\* C2: column k of vec belongs to lambda[k].  Order 3: vec_1, vec_2 and vec_3 take
\* the three columns as a permutation, the kernel vector z is in the column of the
\* deflated entry b1 and P Q (0, c, -s), P Q (0, s, c) are in the columns of b2 and
\* b3.  Order 2: (c, -s) is the column of the value from d1, (s, c) that of d2
C2_ColumnsFollowValues ==
  /\ (EigReturned3 /\ aux.path = "deflate") =>
       /\ {aux.slot[1], aux.slot[2], aux.slot[3]} = {0, 1, 2}
       /\ \A j \in 1..3 : lambda[aux.slot[j]] = Mul(aux.b[j], aux.mult)
       /\ Column3(aux.slot[1]) = aux.z
       /\ Column3(aux.slot[2]) =
            BackTransformed(aux.k, aux.v, aux.g, <<Zero, aux.c, Neg(aux.s)>>)
       /\ Column3(aux.slot[3]) =
            BackTransformed(aux.k, aux.v, aux.g, <<Zero, aux.s, aux.c>>)
  /\ (EigReturned /\ mat.h = 2) =>
       \E a \in {0, 1} :
         /\ Column2(a) = <<aux.c, Neg(aux.s)>> /\ lambda[a] = aux.b[1]
         /\ Column2(1 - a) = <<aux.s, aux.c>> /\ lambda[1 - a] = aux.b[2]

\* a call where z is stored in the last column, after an exchange of entries
C2_Witness ==
  /\ EigReturned3
  /\ aux.path = "deflate"
  /\ aux.slot[1] = 2
  /\ aux.k # 1
  /\ Column3(2) = aux.z
  /\ Lt(lambda[0], lambda[2])

C2_WitnessOrder2 ==
  EigReturned /\ mat.h = 2 /\ aux.swapped /\ ~IsZero(aux.s) /\ Lt(lambda[0], lambda[1])

(***************************************************************************)
(* Properties of CalcSingularvalue                                         *)
(***************************************************************************)
\* CalcSingularvalue has returned from a call on a square matrix of order 1, 2 or 3
SvReturned == pc = "returned" /\ op = "CalcSingularvalue" /\ ~SvShapeError(mat)

\* what CalcSingularvalue(j) returns for the matrix of the call
SvOf(j) == CalcSingularvalue(mat.h, Fetch(mat, oob), j).ret

\* C3: for a matrix of order 2 or 3 the values CalcSingularvalue returns do not
\* increase with the index: the value of every smaller index j is >= the value of i
C3_NonIncreasing ==
  (SvReturned /\ mat.h >= 2) => \A j \in 0..(arg - 1) : Ge(SvOf(j), ret)

\* C4: every value CalcSingularvalue returns for a matrix of order 1, 2 or 3 and an
\* index i in 0..order-1 is non-negative
C4_NonNegative == SvReturned => Ge(ret, Zero)

\* the Euclidean norm of the first column of the matrix of the call
ColumnNorm ==
  CASE mat.h = 1 -> Sqrt(Mul(mat.data[0], mat.data[0]))
    [] mat.h = 2 -> Sqrt(Add(Mul(mat.data[0], mat.data[0]), Mul(mat.data[1], mat.data[1])))
    [] mat.h = 3 -> Sqrt(Add(Add(Mul(mat.data[0], mat.data[0]),
                                 Mul(mat.data[1], mat.data[1])),
                             Mul(mat.data[2], mat.data[2])))

\* C5: for a matrix of a single column and height 1, 2 or 3, CalcSingularvalue(0)
\* returns the Euclidean norm of the column; the column (3, 4) gives 5
C5_ColumnNorm ==
  (op = "CalcSingularvalue" /\ mat.w = 1 /\ mat.h \in 1..3 /\ arg = 0) =>
     /\ pc = "returned"
     /\ ret = ColumnNorm
     /\ (mat = Mat(2, 1, <<Flt(3), Flt(4)>>) => ret = Flt(5))

(***************************************************************************)
(* Properties of the checks of the shape                                   *)
(***************************************************************************)
\* a call of CalcEigenvalues or CalcSingularvalue, returned or aborted, on a matrix
\* that is not square or not of a supported order
BadShapeCall ==
  \/ op = "CalcEigenvalues" /\ (mat.h # mat.w \/ mat.h \notin {2, 3})
  \/ op = "CalcSingularvalue" /\ (mat.h # mat.w \/ mat.h \notin {1, 2, 3})

\* the call wrote nothing and returned nothing
NothingComputed == lambda = lambda0 /\ vec = vec0 /\ ret = NoRet

\* C6 as written: a call on a matrix that is not square, or of an unsupported order,
\* aborts before computing anything and never returns a value
C6_AlwaysFatal == BadShapeCall => (pc = "aborted" /\ NothingComputed)

\* C6, amended: where MFEM_DEBUG is defined such a call aborts through mfem_error
\* before computing anything; where it is not defined nothing checks the shape and
\* the call returns what it computes from the entries of data it reads
C6_FatalInDebug ==
  BadShapeCall =>
    IF MFEM_DEBUG
    THEN pc = "aborted" /\ aux.path = "mfem_error" /\ NothingComputed
    ELSE pc = "returned" /\ aux.path # "mfem_error" /\ ~NothingComputed

\* the debug build has aborted a call of CalcEigenvalues on a 4 x 4 matrix
C6_Witness ==
  /\ BadShapeCall
  /\ MFEM_DEBUG
  /\ op = "CalcEigenvalues"
  /\ mat.h = 4
  /\ mat.w = 4
  /\ pc = "aborted"

\* the build without MFEM_DEBUG has returned eigenvalues for a 2 x 3 matrix
C6_WitnessRelease ==
  BadShapeCall /\ ~MFEM_DEBUG /\ op = "CalcEigenvalues" /\ mat.h = 2 /\ mat.w = 3
    /\ pc = "returned"

(***************************************************************************)
(* Properties of Rank                                                      *)
(***************************************************************************)
\* [[1, 0], [0, 0]]
Proj2 == DiagMat(2, 2, <<One, Zero, Zero>>)

\* C7: Rank(tol) returns the number of the singular values sv(i) of the matrix with
\* sv(i) >= tol, a number in 0..min(height, width); it returns 1 for [[1,0],[0,0]]
\* and tol = 1e-9
C7_RankCounts ==
  (pc = "returned" /\ op = "Rank") =>
     /\ ret = Cardinality({i \in 1..Len(aux.sv) : Ge(aux.sv[i], arg)})
     /\ Len(aux.sv) = Min(mat.h, mat.w)
     /\ ret \in 0..Min(mat.h, mat.w)
     /\ (mat = Proj2 /\ arg = Tol9 => ret = 1)

\* Rank has counted a singular value equal to tol and left out a smaller one
C7_Witness ==
  /\ pc = "returned"
  /\ op = "Rank"
  /\ \E i \in 1..Len(aux.sv) : aux.sv[i] = arg
  /\ \E i \in 1..Len(aux.sv) : Lt(aux.sv[i], arg)
  /\ \A i \in 1..Len(aux.sv) : Le(aux.sv[i], arg)
  /\ ret >= 1

C7_WitnessProj2 == pc = "returned" /\ op = "Rank" /\ mat = Proj2 /\ arg = Tol9 /\ ret = 1

(***************************************************************************)
(* Properties of GetScalingFactor                                          *)
(***************************************************************************)
\* GetScalingFactor has returned mult for a d_max > 0
GsfReturned == pc = "returned" /\ op = "GetScalingFactor" /\ Gt(arg, Zero)

\* x is 2^j
IsPowerOfTwo(x, j) == x = <<2^(MantissaBits - 1), j - (MantissaBits - 1)>>

Finite(x) == IsZero(x) \/ frexp_exponent(x) <= max_exponent

\* 2^j A and 2^j lambda are finite for the matrix A and the lambda of the call
FiniteScaled(j) ==
  /\ \A i \in DOMAIN mat.data : Finite(Scaled(mat.data[i], j))
  /\ \A a \in 0..2 : Finite(Scaled(lambda[a], j))

\* the largest |entry| of the matrix of the call
MaxNorm(M) ==
  MaxAbs(MaxAbs(MaxAbs(MaxAbs(MaxAbs(fabs(M.data[0]), M.data[4]), M.data[8]),
                       M.data[3]), M.data[6]), M.data[7])

\* the matrix 3 A, each entry rounded to a double
Tripled(M) == [M EXCEPT !.data = [i \in DOMAIN M.data |-> Mul(Flt(3), M.data[i])]]

\* the lambda CalcEigenvalues writes for the 3x3 matrix M
LambdaOf(M) == CalcEigenvalues3(Fetch(M, << >>), lambda0, vec0).lambda

\* the tolerance of the comparisons, relative to the largest |entry|
Tolerance == Norm(1, 5 - MantissaBits)

\* |x - y| <= Tolerance * scale
Near(x, y, scale) == Le(fabs(Sub(x, y)), Mul(Tolerance, scale))

Reconstructed(i, j) ==
  Add(Add(Mul(Mul(vec[i], lambda[0]), vec[j]),
          Mul(Mul(vec[3 + i], lambda[1]), vec[3 + j])),
      Mul(Mul(vec[6 + i], lambda[2]), vec[6 + j]))

\* entry i of A v_a for the matrix A of the call and column a of vec
Applied(i, a) ==
  Add(Add(Mul(Entry(mat, i, 0), vec[3 * a]), Mul(Entry(mat, i, 1), vec[3 * a + 1])),
      Mul(Entry(mat, i, 2), vec[3 * a + 2]))

\* C10: for a symmetric 3x3 matrix A the lambda and vec of CalcEigenvalues give
\* A = V Lambda V^t and A v_k = lambda_k v_k up to rounding, also where the kernel
\* solver reports kdim == 2 and hands back a vector orthogonal to the kernel
C10_Reconstruction ==
  EigReturned3 =>
     /\ \A i, j \in 0..2 : Near(Reconstructed(i, j), Entry(mat, i, j), MaxNorm(mat))
     /\ \A i, a \in 0..2 : Near(Applied(i, a), Mul(lambda[a], vec[3 * a + i]),
                                MaxNorm(mat))

\* a call where KernelVector3S has returned kdim == 2 and the eigenvalues differ
C10_Witness ==
  /\ EigReturned3
  /\ aux.path = "deflate"
  /\ aux.kdim = 2
  /\ Lt(lambda[0], lambda[2])

(***************************************************************************)
(* Orthonormality of the eigenvectors                                      *)
(***************************************************************************)
\* entry (a, b) of V^t V for the n x n array vec of the call
Gram(n, a, b) ==
  IF n = 2
  THEN Add(Mul(vec[2 * a], vec[2 * b]), Mul(vec[2 * a + 1], vec[2 * b + 1]))
  ELSE Add(Add(Mul(vec[3 * a], vec[3 * b]), Mul(vec[3 * a + 1], vec[3 * b + 1])),
           Mul(vec[3 * a + 2], vec[3 * b + 2]))

\* entry (a, b) of the identity
Delta(a, b) == IF a = b THEN One ELSE Zero

\* C11: the columns of the vec CalcEigenvalues returns are orthonormal, V^t V = I up
\* to rounding, for order 2 (columns (c, -s) and (s, c)) and for order 3 (the kernel
\* vector z and the columns P Q (0, c, -s)^t and P Q (0, s, c)^t)
C11_Orthonormal ==
  EigReturned =>
    \A a, b \in 0..(mat.h - 1) : Near(Gram(mat.h, a, b), Delta(a, b), One)

\* a call of order 3 that went through the deflation with a rotation that is not the
\* identity and an exchange of entries
C11_Witness ==
  /\ EigReturned3
  /\ aux.path = "deflate"
  /\ ~IsZero(aux.s)
  /\ aux.k # 1
  /\ \A a \in 0..2 : Near(Gram(3, a, a), One, One)

\* a call of order 2 with a rotation that is not the identity
C11_WitnessOrder2 == EigReturned /\ mat.h = 2 /\ ~IsZero(aux.s)

(***************************************************************************)
(* The branch Q <= 0                                                       *)
(***************************************************************************)
\* the six entries CalcEigenvalues reads from the 3x3 matrix M, divided by mult
ScaledEntries(M, mult) ==
  [d11 |-> Div(M.data[0], mult), d22 |-> Div(M.data[4], mult),
   d33 |-> Div(M.data[8], mult), d12 |-> Div(M.data[3], mult),
   d13 |-> Div(M.data[6], mult), d23 |-> Div(M.data[7], mult)]

\* aa, Q and R of the matrix of the call
InvariantsOf(M) ==
  LET A == ScaledEntries(M, GetScalingFactor(MaxNorm(M)))
  IN Invariants3(A.d11, A.d22, A.d33, A.d12, A.d13, A.d23)

\* the 3x3 identity, column by column
Id3 == [i \in 0..8 |-> IF i \in {0, 4, 8} THEN One ELSE Zero]

\* C12: where the invariant Q of the symmetric 3x3 matrix is <= 0, CalcEigenvalues
\* returns three times the value aa * mult, aa being the third of the trace of the
\* scaled matrix, and the identity in vec; for diag(5, 5, 5) that is (5, 5, 5) and
\* an orthonormal basis
C12_TripleAtQ0 ==
  /\ (EigReturned3 /\ Le(InvariantsOf(mat).Q, Zero)) =>
        /\ aux.path = "Q0"
        /\ \A a \in 0..2 :
             lambda[a] = Mul(InvariantsOf(mat).aa, GetScalingFactor(MaxNorm(mat)))
        /\ vec = Id3
  /\ (EigReturned3 /\ mat = Diag555) =>
        /\ Le(InvariantsOf(mat).Q, Zero)
        /\ lambda = [a \in 0..2 |-> Flt(5)]
        /\ \A a, b \in 0..2 : Gram(3, a, b) = Delta(a, b)

\* the call on diag(5, 5, 5) has returned through the branch Q <= 0
C12_Witness ==
  /\ EigReturned3
  /\ mat = Diag555
  /\ Le(InvariantsOf(mat).Q, Zero)
  /\ lambda[2] = Flt(5)
  /\ vec[8] = One

\* a matrix that is not zero and not diag(5, 5, 5) has taken the branch too
C12_WitnessOther ==
  /\ EigReturned3
  /\ mat # Diag555
  /\ ~IsZero(mat.data[0])
  /\ Le(InvariantsOf(mat).Q, Zero)

(***************************************************************************)
(* No partial results                                                      *)
(***************************************************************************)
\* arrays of the caller that hold something else than lambda0 and vec0 before the call
StaleLambda == [i \in 0..2 |-> Flt(7)]

StaleVec == [i \in 0..8 |-> Flt(7)]

\* the result of the call of the state, had the caller's arrays held the stale values
OnStale == CalcEigenvalues(mat.h, Fetch(mat, oob), StaleLambda, StaleVec)

C13_WitnessOrder2 == EigReturned /\ mat.h = 2 /\ \A i \in 0..3 : vec[i] # vec0[i]

C13_WitnessQ0 == EigReturned3 /\ aux.path = "Q0" /\ \A i \in 0..8 : vec[i] # vec0[i]

C13_WitnessKdim3 == EigReturned3 /\ aux.path = "kdim3" /\ \A i \in 0..8 : vec[i] # vec0[i]

(***************************************************************************)
(* The documented examples                                                 *)
(***************************************************************************)
\* the a-th vector of the standard basis of order n, as a column of vec
Basis(n, a) == [i \in 0..(n - 1) |-> IF i = a THEN One ELSE Zero]

\* column a of the n x n array vec
ColumnOf(n, a) == [i \in 0..(n - 1) |-> vec[n * a + i]]

\* x = y or x = -y
SameUpToSign(x, y) == x = y \/ x = [i \in DOMAIN y |-> Neg(y[i])]

\* C14: for diag(1, 2, 3) CalcEigenvalues returns the eigenvalues (1, 2, 3) and, in
\* the columns 0, 1 and 2 of vec, the vectors e1, e2 and e3 up to sign
C14_Diag123 ==
  (EigReturned3 /\ mat = Diag123) =>
     /\ lambda = [a \in 0..2 |-> Flt(a + 1)]
     /\ \A a \in 0..2 : SameUpToSign(ColumnOf(3, a), Basis(3, a))

\* the call on diag(1, 2, 3) has returned through the deflation, the kernel vector
\* being e1 up to sign, and lambda[2] is 3
C14_Witness ==
  /\ EigReturned3
  /\ mat = Diag123
  /\ aux.path = "deflate"
  /\ SameUpToSign([i \in 0..2 |-> aux.z[i + 1]], Basis(3, 0))
  /\ lambda[2] = Flt(3)

\* 1/sqrt(2), rounded
InvSqrt2 == Div(One, Sqrt(Two))

\* C15: for the 2x2 matrix [[2, 1], [1, 2]] CalcEigenvalues returns the eigenvalues
\* (1, 3), the column (1, -1)/sqrt(2) for 1 and the column (1, 1)/sqrt(2) for 3
C15_A2112 ==
  (EigReturned /\ mat = A2112) =>
     /\ lambda[0] = One
     /\ lambda[1] = Flt(3)
     /\ Near(vec[0], InvSqrt2, One)
     /\ ColumnOf(2, 0) = [i \in 0..1 |-> IF i = 0 THEN vec[0] ELSE Neg(vec[0])]
     /\ ColumnOf(2, 1) = [i \in 0..1 |-> vec[0]]

\* the call on [[2, 1], [1, 2]] has returned from the branch d0 <= d3 with c = s
C15_Witness ==
  /\ EigReturned
  /\ mat = A2112
  /\ ~aux.swapped
  /\ aux.c = aux.s
  /\ vec[1] = Neg(aux.s)
  /\ lambda[1] = Flt(3)

\* R and Q of the matrix M put CalcEigenvalues in the branch fabs(R) >= sqrtQ3, R < 0
SaturatedBelow(M) ==
  LET inv == InvariantsOf(M)
  IN /\ Gt(inv.Q, Zero)
     /\ Ge(fabs(inv.R), Mul(inv.Q, Sqrt(inv.Q)))
     /\ Lt(inv.R, Zero)

\* C16: for [[0, 1, 1], [1, 0, 1], [1, 1, 0]] CalcEigenvalues returns the eigenvalues
\* (-1, -1, 2), up to rounding: the branch fabs(R) >= sqrtQ3 with R < 0 gives the
\* largest root 2 as the separated one, which ends in lambda[2], and the deflated
\* 2x2 block gives the pair -1, -1
C16_Ones0 ==
  (EigReturned3 /\ mat = Ones0) =>
     /\ SaturatedBelow(mat)
     /\ aux.path = "deflate"
     /\ Mul(aux.aa, aux.mult) = Two
     /\ aux.slot[1] = 2
     /\ Near(lambda[2], Two, One)
     /\ Near(Mul(aux.b[2], aux.mult), Neg(One), One)
     /\ Near(Mul(aux.b[3], aux.mult), Neg(One), One)
     /\ Near(lambda[0], Neg(One), One)
     /\ Near(lambda[1], Neg(One), One)

\* the call on [[0, 1, 1], [1, 0, 1], [1, 1, 0]] has returned with the kernel vector
\* of the root 2 in the last column
C16_Witness ==
  /\ EigReturned3
  /\ mat = Ones0
  /\ SaturatedBelow(mat)
  /\ aux.path = "deflate"
  /\ Column3(2) = aux.z
  /\ Lt(lambda[1], lambda[2])

(***************************************************************************)
(* The 2x2 symmetric eigen-decomposition                                   *)
(***************************************************************************)
\* CalcEigenvalues has been called on a 2x2 matrix
Order2Call == op = "CalcEigenvalues" /\ mat.h = 2 /\ mat.w = 2

\* C17: the 2x2 symmetric eigen-decomposition has no failure mode.  Every call on
\* (d1, d12, d2) returns; for d12 = 0 nothing is divided and the result is the
\* rotation c = 1, s = 0 with d1 and d2 as they were; for d12 # 0 the quotient
\* (d2 - d1)/(2*d12) exists and the rotation has c > 0 and s # 0, also for d1 = d2,
\* where t is 1 or -1 and the values are d1 - |d12| and d2 + |d12|; Eigenvalues2S
\* gives the same two values as Eigensystem2S
C17_NoFailure2S ==
  Order2Call =>
     /\ pc = "returned"
     /\ LET d1 == mat.data[0]
            d12 == mat.data[2]
            d2 == mat.data[3]
        IN /\ aux.b = <<Eigenvalues2S(d12, d1, d2).d1, Eigenvalues2S(d12, d1, d2).d2>>
           /\ IsZero(d12) => (aux.c = One /\ aux.s = Zero /\ aux.b = <<d1, d2>>)
           /\ ~IsZero(d12) =>
                /\ Mul(Two, d12) # Zero
                /\ Gt(aux.c, Zero)
                /\ ~IsZero(aux.s)
                /\ aux.s = Mul(aux.c, JacobiT(d12, d1, d2))
                /\ (d1 = d2) => /\ fabs(aux.s) = aux.c
                                /\ aux.b = <<Sub(d1, fabs(d12)), Add(d2, fabs(d12))>>

\* a call with d1 = d2 and d12 < 0 has returned
C17_Witness ==
  /\ Order2Call
  /\ pc = "returned"
  /\ mat.data[0] = mat.data[3]
  /\ Lt(mat.data[2], Zero)
  /\ Lt(aux.s, Zero)

\* a call with d12 = 0 and d1 > d2 has returned
C17_WitnessDiagonal ==
  Order2Call /\ pc = "returned" /\ IsZero(mat.data[2]) /\ Gt(mat.data[0], mat.data[3])

(***************************************************************************)
(* The root CalcSingularvalue selects                                      *)
(***************************************************************************)
\* CalcSingularvalue has returned from a call on a 3x3 matrix
SvReturned3 == SvReturned /\ mat.h = 3

\* the Gram matrix A^t A of the 3x3 matrix M, as a symmetric matrix
GramOf(M) ==
  LET B == GramMatrix3(M.data[0], M.data[1], M.data[2], M.data[3], M.data[4],
                       M.data[5], M.data[6], M.data[7], M.data[8])
  IN Sym3(B.b11, B.b22, B.b33, B.b12, B.b13, B.b23)

\* the square of the value returned
RetSquared == Mul(ret, ret)

\* C20: for a 3x3 matrix A, CalcSingularvalue(i) returns sqrt(|e|)*mult for the root e
\* of the Gram matrix A^t A selected by i: the largest for i = 0, the middle one for
\* i = 1, the smallest for i = 2, up to rounding.  The square of the value returned is
\* the eigenvalue of A^t A of that rank, as CalcEigenvalues orders them, in the
\* trigonometric branch, where the separated root is returned directly, and after
\* the deflation
C20_RootSelected ==
  SvReturned3 =>
     /\ aux.path \in {"Q0", "trig", "separated", "kdim3", "deflate"}
     /\ Ge(ret, Zero)
     /\ LET e == LambdaOf(GramOf(mat))
        IN Near(RetSquared, fabs(e[2 - arg]), MaxNorm(GramOf(mat)))

\* the deflation branch has returned the middle one of three different values
C20_Witness ==
  /\ SvReturned3
  /\ aux.path = "deflate"
  /\ arg = 1
  /\ Lt(SvOf(2), ret)
  /\ Lt(ret, SvOf(0))

\* the other branches
C20_WitnessTrig == SvReturned3 /\ aux.path = "trig" /\ arg = 1 /\ Lt(SvOf(2), ret)

C20_WitnessSeparated == SvReturned3 /\ aux.path = "separated" /\ Gt(ret, Zero)

(***************************************************************************)
(* Concurrent calls                                                        *)
(***************************************************************************)
\* what the call of thread t returns when it runs alone on the matrix it was given
AloneEig(t) ==
  CalcEigenvalues(thread[t].given.h, Fetch(thread[t].given, << >>), lambda0, vec0)

AloneSv(t) ==
  CalcSingularvalue(thread[t].given.h, Fetch(thread[t].given, << >>), thread[t].i).ret

\* C18: CalcEigenvalues and CalcSingularvalue are pure.  Under every interleaving of
\* the calls of two threads on their own matrices and arrays, the matrix of a call
\* keeps the entries it was given, lambda and vec of a call hold nothing before its
\* own stores, and a call that is done has stored or returned exactly what it does
\* when it runs alone
C18_Pure ==
  \A t \in Threads :
    /\ thread[t].pc # "idle" => heap[t].mat = thread[t].given
    /\ thread[t].pc \in {"entered", "read"} =>
         (heap[t].lambda = lambda0 /\ heap[t].vec = vec0 /\ thread[t].ret = NoRet)
    /\ (thread[t].pc = "done" /\ thread[t].op = "CalcEigenvalues") =>
         LET r == AloneEig(t)
         IN heap[t].lambda = r.lambda /\ heap[t].vec = r.vec
    /\ (thread[t].pc = "done" /\ thread[t].op = "CalcSingularvalue") =>
         thread[t].ret = AloneSv(t)

\* thread 2 entered after thread 1 had copied its entries, and is done with another
\* matrix while thread 1 has not stored yet
C18_Witness ==
  /\ thread[1].pc = "read"
  /\ thread[1].op = "CalcEigenvalues"
  /\ thread[1].given = Ones0
  /\ thread[2].pc = "done"
  /\ thread[2].op = "CalcEigenvalues"
  /\ thread[2].given = Diag123
  /\ heap[2].lambda[2] = Flt(3)
  /\ locals[1] # locals[2]

\* both threads are done, one with eigenvalues and one with a singular value
C18_WitnessBothDone ==
  /\ thread[1].pc = "done" /\ thread[1].op = "CalcSingularvalue"
  /\ thread[2].pc = "done" /\ thread[2].op = "CalcEigenvalues"

(***************************************************************************)
(* Termination                                                             *)
(***************************************************************************)
\* a call is being executed
Running == stack # << >>

\* the call has returned to its caller
Returned == call # NoFlow /\ stack = << >>

\* a step inside the function on top goes to a later line, and a call is of a
\* function that is not on the stack
Forward ==
  /\ (Len(stack') = Len(stack) /\ Running) => stack'[Len(stack')].line > Top.line
  /\ (Len(stack') = Len(stack) + 1 /\ Running) =>
        \A k \in 1..Len(stack) : stack[k].fn # stack'[Len(stack')].fn

\* C19: every call of CalcEigenvalues and CalcSingularvalue terminates after a number
\* of steps bounded by a constant that does not depend on the input: no step goes back
\* (goto have_aa, goto done_3d and goto done_column_1 go to later lines), no function
\* calls itself, the number of steps stays within StepBound, and a call that has
\* begun returns
C19_Terminates ==
  /\ [](steps <= StepBound)
  /\ [][Forward]_vars
  /\ (Running ~> Returned)

\* CalcSingularvalue is inside KernelVector3S inside KernelVector3G_aux, which has
\* taken goto done_column_1
C19_Witness ==
  /\ call.op = "CalcSingularvalue"
  /\ Len(stack) = 3
  /\ Top.fn = "KernelVector3G_aux"
  /\ Top.line = 1179
  /\ Top.from = 1146

\* CalcEigenvalues has taken goto done_3d, and a call has returned
C19_WitnessDone3d ==
  call.op = "CalcEigenvalues" /\ Len(stack) = 1 /\ Top.line = 1974 /\ Top.from = 1883

C19_WitnessReturned == Returned /\ call.n = 3 /\ steps > 30

(***************************************************************************)
(* The branch fabs(R) <= 0.9                                               *)
(***************************************************************************)
\* the largest |entry| of the nine entries of the 3x3 matrix M
MaxNorm9(M) ==
  MaxAbs(MaxAbs(MaxAbs(MaxAbs(MaxAbs(MaxAbs(MaxAbs(MaxAbs(
    fabs(M.data[0]), M.data[1]), M.data[2]), M.data[3]), M.data[4]), M.data[5]),
    M.data[6]), M.data[7]), M.data[8])

\* Q and R as CalcSingularvalue computes them for the 3x3 matrix M
GramInvariantsOf(M) ==
  LET d == [k \in 0..8 |-> Div(M.data[k], GetScalingFactor(MaxNorm9(M)))]
      B == GramMatrix3(d[0], d[1], d[2], d[3], d[4], d[5], d[6], d[7], d[8])
      x == GramDiffs3(d[0], d[1], d[2], d[3], d[4], d[5], d[6], d[7], d[8])
      c1 == Div(Sub(x.b11_b22, x.b33_b11), Flt(3))
      c2 == Div(Sub(x.b22_b33, x.b11_b22), Flt(3))
      c3 == Div(Sub(x.b33_b11, x.b22_b33), Flt(3))
  IN [Q |-> InvariantQ(B.b12, B.b13, B.b23, c1, c2, c3),
      R |-> InvariantR(B.b12, B.b13, B.b23, c1, c2, c3)]

\* Q > 0, fabs(R) < sqrtQ3 and fabs(R/sqrtQ3) <= 0.9 for the invariants v
Separated09(v) ==
  /\ Gt(v.Q, Zero)
  /\ Lt(fabs(v.R), Mul(v.Q, Sqrt(v.Q)))
  /\ Le(fabs(Div(v.R, Mul(v.Q, Sqrt(v.Q)))), Point9)

\* C21 as stated: when Q > 0 and |R/sqrtQ3| <= 0.9 the 3x3 eigen-decomposition
\* CalcEigenvalues takes all three roots from the trigonometric formula and invokes
\* neither KernelVector3S nor Reduce3S
C21_EigSkipsReduction ==
  (EigReturned3 /\ Separated09(InvariantsOf(mat))) => aux.path \notin {"kdim3", "deflate"}

\* C21: when Q > 0 and |R/sqrtQ3| <= 0.9, the 3x3 CalcSingularvalue takes the one
\* root that i asks for from the trigonometric formula and invokes neither
\* KernelVector3S nor Reduce3S; CalcEigenvalues has no such branch: whenever Q > 0 it
\* invokes KernelVector3S for the one root it has computed and, unless that returns
\* 3, Reduce3S for the other two
C21_TrigShortcut ==
  /\ (SvReturned3 /\ Separated09(GramInvariantsOf(mat))) => aux.path = "trig"
  /\ (SvReturned3 /\ aux.path = "trig") => Separated09(GramInvariantsOf(mat))
  /\ (EigReturned3 /\ Gt(InvariantsOf(mat).Q, Zero)) =>
        /\ aux.path \in {"kdim3", "deflate"}
        /\ aux.path = "deflate" => (aux.kdim \in {1, 2} /\ aux.k \in {1, 2, 3})

\* CalcSingularvalue has returned through the branch fabs(R) <= 0.9
C21_Witness ==
  /\ SvReturned3
  /\ Separated09(GramInvariantsOf(mat))
  /\ aux.path = "trig"
  /\ Gt(ret, Zero)

\* CalcEigenvalues has gone through KernelVector3S and Reduce3S with fabs(R) <= 0.9
C21_WitnessEig ==
  /\ EigReturned3
  /\ Separated09(InvariantsOf(mat))
  /\ aux.path = "deflate"

(***************************************************************************)
(* Reduce3S                                                                *)
(***************************************************************************)
\* Reduce3S has returned
ReduceReturned == kcall.fn = "Reduce3S" /\ ~kres.fault

\* A u for the integer matrix A = (d1, d2, d3, d12, d13, d23) and the integer vector u
MatVec(A, u) ==
  <<A[1] * u[1] + A[4] * u[2] + A[5] * u[3],
    A[4] * u[1] + A[2] * u[2] + A[6] * u[3],
    A[5] * u[1] + A[6] * u[2] + A[3] * u[3]>>

\* u is an eigenvector of A for the eigenvalue lam
IsEigenpair(A, u, lam) ==
  /\ u # <<0, 0, 0>>
  /\ MatVec(A, u) = <<lam * u[1], lam * u[2], lam * u[3]>>

\* the eigenvalues of the matrices of ReduceMatrices, in non-decreasing order
Spectrum(A) ==
  CASE A = <<1, 2, 3, 0, 0, 0>> -> <<1, 2, 3>>
    [] A = <<2, 2, 3, 1, 0, 0>> -> <<1, 3, 3>>
    [] A = <<0, 0, 0, 1, 1, 1>> -> <<-1, -1, 2>>

\* the other two eigenvalues of A, in non-decreasing order
Others(A, lam) ==
  LET e == Spectrum(A)
  IN IF e[1] = lam THEN <<e[2], e[3]>>
     ELSE IF e[2] = lam THEN <<e[1], e[3]>> ELSE <<e[1], e[2]>>

\* y = P z for the z of the call and the k returned
PermutedZ ==
  LET z == <<kcall.a[7], kcall.a[8], kcall.a[9]>>
      k == kres.r.k
  IN CASE k = 1 -> z
       [] k = 2 -> <<z[2], z[1], z[3]>>
       [] k = 3 -> <<z[3], z[2], z[1]>>

\* Q y = y - g (v^t y) v for the v and g returned
Reflected(b, y) ==
  LET t == Mul(b.g, Add(Add(Mul(b.v1, y[1]), Mul(b.v2, y[2])), Mul(b.v3, y[3])))
  IN <<Sub(y[1], Mul(t, b.v1)), Sub(y[2], Mul(t, b.v2)), Sub(y[3], Mul(t, b.v3))>>

\* the largest |entry| of the matrices of ReduceMatrices
ReduceScale == Flt(3)

\* B = Q P A P Q has b12 = b13 = 0 and b1 = lam, and the 2x2 block (d2, d23; d23, d3)
\* has the other two eigenvalues of A, up to rounding
Deflated(A, lam) ==
  LET b == kres.r.b
      e == Eigenvalues2S(b.d23, b.d2, b.d3)
  IN /\ Near(b.b12, Zero, ReduceScale)
     /\ Near(b.b13, Zero, ReduceScale)
     /\ Near(b.d1, Flt(lam), ReduceScale)
     /\ Near(Min2(e.d1, e.d2), Flt(Others(A, lam)[1]), ReduceScale)
     /\ Near(StdMax(e.d1, e.d2), Flt(Others(A, lam)[2]), ReduceScale)

\* Q P z = s e1 up to rounding
MapsTo(s) ==
  LET q == Reflected(kres.r.b, PermutedZ)
  IN Near(q[1], s, One) /\ Near(q[2], Zero, One) /\ Near(q[3], Zero, One)

\* the call is Reduce3S on the matrix A and the unit vector along u
ReduceCallOn(A, u) == ReduceReturned /\ kcall.a = ReduceArgs(A, u, TRUE)

C22_WitnessFull ==
  /\ ReduceCallOn(<<0, 0, 0, 1, 1, 1>>, <<1, 1, -2>>)
  /\ kcall.mode = 0
  /\ ~IsZero(kres.r.b.v1)

\* the vector z of the call of Reduce3S
ReduceZ == <<kcall.a[7], kcall.a[8], kcall.a[9]>>

\* the entries 1 and k of q exchanged
Exchanged(k, q) ==
  CASE k = 1 -> q
    [] k = 2 -> <<q[2], q[1], q[3]>>
    [] k = 3 -> <<q[3], q[2], q[1]>>

\* C23: Reduce3S returns k in {1, 2, 3} such that |z_k| is the minimum of |z1|, |z2|,
\* |z3| when mode = 0 and the maximum when mode = 1, ties included; when the two
\* entries of P z other than the pivot are both zero it returns v = 0 and g = 1
\* (Q = I) and (d1, d2, d3) is the diagonal passed with the entries 1 and k
\* exchanged, d23 being the entry of P A P at (2,3)
C23_PivotIndex ==
  ReduceReturned =>
     /\ kres.r.k \in {1, 2, 3}
     /\ \A j \in 1..3 :
          IF kcall.mode = 0
          THEN Le(fabs(ReduceZ[kres.r.k]), fabs(ReduceZ[j]))
          ELSE Ge(fabs(ReduceZ[kres.r.k]), fabs(ReduceZ[j]))
     /\ (IsZero(PermutedZ[2]) /\ IsZero(PermutedZ[3])) =>
          /\ IsZero(kres.r.b.v1) /\ IsZero(kres.r.b.v2) /\ IsZero(kres.r.b.v3)
          /\ kres.r.b.g = One
          /\ <<kres.r.b.d1, kres.r.b.d2, kres.r.b.d3>>
               = Exchanged(kres.r.k, <<kcall.a[1], kcall.a[2], kcall.a[3]>>)
          /\ kres.r.b.d23 = (CASE kres.r.k = 1 -> kcall.a[6]
                               [] kres.r.k = 2 -> kcall.a[5]
                               [] kres.r.k = 3 -> kcall.a[4])

\* mode = 1 and z = -e2: k = 2, Q = I and d1 and d2 are exchanged
C23_Witness ==
  /\ ReduceReturned
  /\ kcall.mode = 1
  /\ ReduceZ = <<Zero, Neg(One), Zero>>
  /\ kres.r.k = 2
  /\ IsZero(kres.r.b.v2)
  /\ kres.r.b.d1 = kcall.a[2]
  /\ kcall.a[1] # kcall.a[2]

\* a tie between the two smallest entries, mode = 0
C23_WitnessTie ==
  /\ ReduceReturned
  /\ kcall.mode = 0
  /\ fabs(ReduceZ[2]) = fabs(ReduceZ[3])
  /\ Lt(fabs(ReduceZ[2]), fabs(ReduceZ[1]))
  /\ kres.r.k = 2

(***************************************************************************)
(* KernelVector3S and KernelVector2G                                       *)
(***************************************************************************)
\* KernelVector3S has returned
Kernel3SReturned == kcall.fn = "KernelVector3S" /\ ~kres.fault

\* the matrix of the call after the column and the row pivoting
Pivoted3S ==
  LET a == SwapColumn3S(PivotColumn3S(kcall.a[1], kcall.a[2], kcall.a[3],
                                      kcall.a[4], kcall.a[5], kcall.a[6]).col,
                        kcall.a[1], kcall.a[2], kcall.a[3],
                        kcall.a[4], kcall.a[5], kcall.a[6])
  IN SwapRow3S(PivotRow3S(kcall.mode, a), a)

\* the 2x2 block (d2, c23; c32, d3) that the elimination of the first column leaves
ResidualBlock ==
  LET b == Pivoted3S
      e == Column1G(b.d1, b.d2, b.d3, b.c12, b.c13, b.c23, b.c21, b.c31, b.c32)
  IN <<e.m.d2, e.m.c23, e.m.c32, e.m.d3>>

AllZero(q) == \A j \in DOMAIN q : IsZero(q[j])

\* C24: KernelVector3S returns 1, 2 or 3: 3 if and only if all six entries of the
\* symmetric matrix are zero, and then (d1, d2, d3) are as passed; 2 if and only if
\* the matrix is not zero and the 2x2 block left by the Householder elimination of
\* the first column is exactly zero; 1 otherwise
C24_KernelDimension ==
  Kernel3SReturned =>
     /\ kres.r.kdim \in {1, 2, 3}
     /\ kres.r.kdim = 3 <=> AllZero(kcall.a)
     /\ kres.r.kdim = 3 => kres.r.z = <<kcall.a[4], kcall.a[5], kcall.a[6]>>
     /\ kres.r.kdim = 2 <=> (~AllZero(kcall.a) /\ AllZero(ResidualBlock))
     /\ kres.r.kdim = 1 <=> (~AllZero(kcall.a) /\ ~AllZero(ResidualBlock))

\* the elimination of a first column with entries below the pivot has left a zero block
C24_Witness ==
  /\ Kernel3SReturned
  /\ kres.r.kdim = 2
  /\ ~IsZero(Pivoted3S.c21)
  /\ AllZero(ResidualBlock)

\* the other values
C24_WitnessZero == Kernel3SReturned /\ kres.r.kdim = 3 /\ AllZero(kcall.a)

C24_WitnessOne == Kernel3SReturned /\ kres.r.kdim = 1 /\ ~IsZero(kcall.a[1])

\* a first column that is zero below the pivot
C24_WitnessDiagonal == Kernel3SReturned /\ kres.r.kdim = 2 /\ IsZero(Pivoted3S.c21)

\* KernelVector2G has returned
Kernel2GReturned == kcall.fn = "KernelVector2G" /\ ~kres.fault

\* the determinant d1*d2 - d12*d21 of the matrix of the call is zero
\* (the entries are small integers, the products and the difference are exact)
Singular2G == IsZero(Sub(Mul(kcall.a[1], kcall.a[4]), Mul(kcall.a[2], kcall.a[3])))

\* the sum of the absolute values of the entries of the call
Scale2G == Add(Add(fabs(kcall.a[1]), fabs(kcall.a[2])), Add(fabs(kcall.a[3]), fabs(kcall.a[4])))

\* (z1, z2) is in the kernel of the matrix of the call, columns in the caller's order
InKernel2G(z1, z2) ==
  /\ Near(Add(Mul(kcall.a[1], z1), Mul(kcall.a[2], z2)), Zero, Scale2G)
  /\ Near(Add(Mul(kcall.a[3], z1), Mul(kcall.a[4], z2)), Zero, Scale2G)

\* the columns of the call are swapped by the pivoting: n2 > n1
SwapColumns2G ==
  Gt(Add(fabs(kcall.a[4]), fabs(kcall.a[2])), Add(fabs(kcall.a[1]), fabs(kcall.a[3])))

\* C25: KernelVector2G returns true if and only if all four entries are zero, and then
\* d1, d12, d21, d2 are as passed; otherwise it returns false and (d1, d2) holds a
\* non-zero vector (z1, z2) in the original column order, which for a singular
\* matrix is in its kernel
C25_ZeroOrVector ==
  Kernel2GReturned =>
     /\ kres.r.zero <=> AllZero(kcall.a)
     /\ kres.r.zero =>
          <<kres.r.d1, kres.r.d12, kres.r.d21, kres.r.d2>> = kcall.a
     /\ ~kres.r.zero => ~(IsZero(kres.r.d1) /\ IsZero(kres.r.d2))
     /\ (~kres.r.zero /\ Singular2G) => InKernel2G(kres.r.d1, kres.r.d2)

\* a singular matrix whose columns were swapped, with a kernel vector that is not
\* symmetric in its two entries
C25_Witness ==
  /\ Kernel2GReturned
  /\ ~kres.r.zero
  /\ Singular2G
  /\ SwapColumns2G
  /\ fabs(kres.r.d1) # fabs(kres.r.d2)
  /\ ~InKernel2G(kres.r.d2, kres.r.d1)

\* the zero matrix
C25_WitnessZero == Kernel2GReturned /\ kres.r.zero

(***************************************************************************)
(* The pivoting as operations on full matrices                             *)
(***************************************************************************)
Idx3 == 1..3

\* the symmetric matrix with the entries d12, d13, d23, d1, d2, d3
Full3S(d12, d13, d23, d1, d2, d3) ==
  [ij \in Idx3 \X Idx3 |->
     CASE ij \in {<<1, 1>>} -> d1
       [] ij \in {<<2, 2>>} -> d2
       [] ij \in {<<3, 3>>} -> d3
       [] ij \in {<<1, 2>>, <<2, 1>>} -> d12
       [] ij \in {<<1, 3>>, <<3, 1>>} -> d13
       [] ij \in {<<2, 3>>, <<3, 2>>} -> d23]

\* the symmetric matrix of a record after the column pivoting
FullOfSym(a) == Full3S(a.c12, a.c13, a.c23, a.d1, a.d2, a.d3)

\* the general matrix of a record handed to KernelVector3G_aux
Full3G(b) ==
  [ij \in Idx3 \X Idx3 |->
     CASE ij = <<1, 1>> -> b.d1  [] ij = <<1, 2>> -> b.c12 [] ij = <<1, 3>> -> b.c13
       [] ij = <<2, 1>> -> b.c21 [] ij = <<2, 2>> -> b.d2  [] ij = <<2, 3>> -> b.c23
       [] ij = <<3, 1>> -> b.c31 [] ij = <<3, 2>> -> b.c32 [] ij = <<3, 3>> -> b.d3]

Exchange(i, j, k) == IF k = i THEN j ELSE IF k = j THEN i ELSE k

SwapRows(M, i, j) == [ij \in DOMAIN M |-> M[<<Exchange(i, j, ij[1]), ij[2]>>]]

SwapCols(M, i, j) == [ij \in DOMAIN M |-> M[<<ij[1], Exchange(i, j, ij[2])>>]]

IsSymmetric(M) == \A ij \in DOMAIN M : M[ij] = M[<<ij[2], ij[1]>>]

\* the l1-norm of column j, summed in the order diagonal, then the other two rows
ColNorm3(M, j) ==
  LET others == Idx3 \ {j}
      lo == CHOOSE k \in others : \A l \in others : k <= l
      hi == CHOOSE k \in others : \A l \in others : k >= l
  IN Add(Add(fabs(M[<<j, j>>]), fabs(M[<<lo, j>>])), fabs(M[<<hi, j>>]))

\* the matrix of a call of KernelVector3S, its pivot column and its pivot row
Matrix3S ==
  Full3S(kcall.a[1], kcall.a[2], kcall.a[3], kcall.a[4], kcall.a[5], kcall.a[6])

Col3S ==
  PivotColumn3S(kcall.a[1], kcall.a[2], kcall.a[3], kcall.a[4], kcall.a[5], kcall.a[6]).col

ColSwapped3S ==
  SwapColumn3S(Col3S, kcall.a[1], kcall.a[2], kcall.a[3], kcall.a[4], kcall.a[5], kcall.a[6])

Row3S == PivotRow3S(kcall.mode, ColSwapped3S)

\* z with the entries 1 and col exchanged
ExchangeEntries(col, z) == [k \in Idx3 |-> z[Exchange(1, col, k)]]

\* the determinant of the matrix of the call is zero (small integers: exact)
Singular3S ==
  LET M == Matrix3S
      Minor(a, b, c, d) == Sub(Mul(M[a], M[d]), Mul(M[b], M[c]))
  IN IsZero(Add(Sub(Mul(M[<<1, 1>>], Minor(<<2, 2>>, <<2, 3>>, <<3, 2>>, <<3, 3>>)),
                    Mul(M[<<1, 2>>], Minor(<<2, 1>>, <<2, 3>>, <<3, 1>>, <<3, 3>>))),
                Mul(M[<<1, 3>>], Minor(<<2, 1>>, <<2, 2>>, <<3, 1>>, <<3, 2>>))))

\* M z is zero up to rounding
InKernel3(M, z) ==
  \A i \in Idx3 :
     Near(Add(Add(Mul(M[<<i, 1>>], z[1]), Mul(M[<<i, 2>>], z[2])), Mul(M[<<i, 3>>], z[3])),
          Zero, Flt(3))

\* the matrix of a call of KernelVector2G and the column its pivoting puts first
Norm2G(j) ==
  IF j = 1 THEN Add(fabs(kcall.a[1]), fabs(kcall.a[3]))
  ELSE Add(fabs(kcall.a[4]), fabs(kcall.a[2]))

Column2G(j) == IF j = 1 THEN {kcall.a[1], kcall.a[3]} ELSE {kcall.a[2], kcall.a[4]}

Col2G == IF SwapColumns2G THEN 2 ELSE 1

\* C26: the column pivoting selects a column of largest l1-norm, of the lowest index
\* among equals (of 2 columns in KernelVector2G, of 3 in KernelVector3S); the swap of
\* KernelVector3S is the swap of rows 1, col and of columns 1, col and leaves the
\* matrix symmetric; the matrix handed to KernelVector3G_aux is that matrix with
\* rows 1 and row exchanged; and the vector returned is the vector of
\* KernelVector3G_aux with the entries 1 and col exchanged, which for a singular
\* matrix with kdim = 1 is in the kernel of the matrix of the call
C26_Pivoting ==
  /\ Kernel3SReturned =>
       /\ \A j \in Idx3 : Le(ColNorm3(Matrix3S, j), ColNorm3(Matrix3S, Col3S))
       /\ \A j \in Idx3 : j < Col3S => Lt(ColNorm3(Matrix3S, j), ColNorm3(Matrix3S, Col3S))
       /\ FullOfSym(ColSwapped3S) = SwapRows(SwapCols(Matrix3S, 1, Col3S), 1, Col3S)
       /\ IsSymmetric(FullOfSym(ColSwapped3S))
       /\ Full3G(SwapRow3S(Row3S, ColSwapped3S)) = SwapRows(FullOfSym(ColSwapped3S), 1, Row3S)
       /\ kres.r.kdim # 3 =>
            /\ kres.r.kdim = KernelVector3G(kcall.mode, Pivoted3S).kdim
            /\ \A k \in Idx3 :
                 kres.r.z[k] = ExchangeEntries(Col3S, KernelVector3G(kcall.mode, Pivoted3S).z)[k]
       /\ (kres.r.kdim = 1 /\ Singular3S) => InKernel3(Matrix3S, kres.r.z)
  /\ (Kernel2GReturned /\ ~kres.r.zero) =>
       /\ \A j \in {1, 2} : Le(Norm2G(j), Norm2G(Col2G))
       /\ \A j \in {1, 2} : j < Col2G => Lt(Norm2G(j), Norm2G(Col2G))
       /\ kres.r.d21 \in Column2G(Col2G)

\* the third column is the pivot, the third row is the pivot row and the kernel
\* vector is not symmetric under the exchange of its entries 1 and 3
C26_Witness ==
  /\ Kernel3SReturned
  /\ kres.r.kdim = 1
  /\ Singular3S
  /\ Col3S = 3
  /\ Row3S # 1
  /\ fabs(kres.r.z[1]) # fabs(kres.r.z[3])
  /\ ~InKernel3(Matrix3S, <<kres.r.z[3], kres.r.z[2], kres.r.z[1]>>)

\* equal largest norms in columns 2 and 3: the second column is the pivot
C26_WitnessTie ==
  /\ Kernel3SReturned
  /\ Col3S = 2
  /\ ColNorm3(Matrix3S, 2) = ColNorm3(Matrix3S, 3)
  /\ Row3S = 2

\* the second column of a 2x2 matrix is the pivot
C26_Witness2G ==
  /\ Kernel2GReturned
  /\ Col2G = 2
  /\ kres.r.d21 \notin Column2G(1)

(***************************************************************************)
(* The minimizer of KernelVector2G                                         *)
(***************************************************************************)
\* the triangular system (d1, d12; 0, d2) of a call of KernelVector2G
Triangular2G ==
  Triangularize2G(Pivot2G(kcall.mode, kcall.a[1], kcall.a[2], kcall.a[3], kcall.a[4],
                          SwapColumns2G))

\* (z1, z2) of the call in the order of the pivoted columns
Chosen2G == IF SwapColumns2G THEN <<kres.r.d2, kres.r.d1>> ELSE <<kres.r.d1, kres.r.d2>>

\* |d1*z1 + d12*z2| + |d2|*|z2|
Objective2G(q, z) ==
  Add(fabs(Add(Mul(q.d1, z[1]), Mul(q.d12, z[2]))), Mul(fabs(q.d2), fabs(z[2])))

\* the root t1 of d1*t + d12*(1 - |t|) = 0: with mu = -d12/d1, t1 = mu/(1 + |mu|)
Root2G(q) == Div(Div(Neg(q.d12), q.d1), Add(One, fabs(Div(Neg(q.d12), q.d1))))

\* the candidates (t, 1 - |t|) for t = -1, 0, 1, t1
Candidates2G(q) ==
  {<<t, Sub(One, fabs(t))>> : t \in {Neg(One), Zero, One, Root2G(q)}}

\* the room left for the rounding of the objective function
Slack2G(q) == Mul(Tolerance, Add(Add(fabs(q.d1), fabs(q.d12)), fabs(q.d2)))

\* C27: for the triangularized system (d1, d12; 0, d2), where d1 # 0, the vector
\* (z1, z2) that KernelVector2G returns is one of the candidates t = z1 in
\* {-1, 0, 1, t1}, z2 = 1 - |t|, up to rounding, and the value of
\* |d1*z1 + d12*z2| + |d2|*|z2| at it is, up to rounding, not larger than at any
\* of the candidates
C27_SmallestCandidate ==
  (Kernel2GReturned /\ ~kres.r.zero) =>
     /\ ~IsZero(Triangular2G.d1)
     /\ kres.r.d12 = Triangular2G.d12
     /\ \E c \in Candidates2G(Triangular2G) :
          /\ Near(Chosen2G[1], c[1], One)
          /\ Near(Chosen2G[2], c[2], One)
     /\ \A c \in Candidates2G(Triangular2G) :
          Le(Objective2G(Triangular2G, Chosen2G),
             Add(Objective2G(Triangular2G, c), Slack2G(Triangular2G)))

\* the value at the root t1 is smaller than at t = 1, 0 and -1 by more than the
\* rounding, and the root is returned
C27_Witness ==
  /\ Kernel2GReturned
  /\ ~kres.r.zero
  /\ ~IsZero(Chosen2G[1])
  /\ ~IsZero(Chosen2G[2])
  /\ \A t \in {Neg(One), Zero, One} :
       Gt(Objective2G(Triangular2G, <<t, Sub(One, fabs(t))>>),
          Add(Objective2G(Triangular2G, Chosen2G), Slack2G(Triangular2G)))

\* the value at t = 1 is not larger than at the root t1, and (1, 0) is returned
C27_WitnessOne ==
  /\ Kernel2GReturned
  /\ ~kres.r.zero
  /\ Chosen2G = <<One, Zero>>
  /\ ~IsZero(Triangular2G.d21)
  /\ Le(Objective2G(Triangular2G, Chosen2G),
        Objective2G(Triangular2G, <<Root2G(Triangular2G), Sub(One, fabs(Root2G(Triangular2G)))>>))

(***************************************************************************)
(* The length of the vectors returned                                      *)
(***************************************************************************)
\* the square of the Euclidean norm and the l1-norm
NormSquared(z) ==
  IF Len(z) = 2 THEN Add(Mul(z[1], z[1]), Mul(z[2], z[2]))
  ELSE Add(Add(Mul(z[1], z[1]), Mul(z[2], z[2])), Mul(z[3], z[3]))

Norm1(z) == Add(fabs(z[1]), fabs(z[2]))

\* the vector that a call of KernelVector2G has returned in (d1, d2)
Vector2G == <<kres.r.d1, kres.r.d2>>

\* the vector that a call of KernelVector3S has returned, which is the vector of
\* KernelVector3G_aux with two entries exchanged
Vector3S == kres.r.z

\* the statement with the Euclidean norm for all of the entry points
C28_EuclideanUnit ==
  /\ (Kernel2GReturned /\ ~kres.r.zero) => Near(NormSquared(Vector2G), One, One)
  /\ (Kernel3SReturned /\ kres.r.kdim # 3) => Near(NormSquared(Vector3S), One, One)

\* C28: when they do not report a zero matrix, KernelVector3G_aux and KernelVector3S
\* return a vector of Euclidean norm 1 and KernelVector2G returns a vector (z1, z2)
\* with |z1| + |z2| = 1, whose Euclidean norm is between 1/sqrt(2) and 1; none of
\* them returns the zero vector
C28_UnitVector ==
  /\ (Kernel2GReturned /\ ~kres.r.zero) =>
       /\ Near(Norm1(Vector2G), One, One)
       /\ Le(NormSquared(Vector2G), Add(One, Tolerance))
       /\ Ge(NormSquared(Vector2G), Sub(Div(One, Two), Tolerance))
       /\ ~AllZero(Vector2G)
  /\ (Kernel3SReturned /\ kres.r.kdim # 3) =>
       /\ Near(NormSquared(Vector3S), One, One)
       /\ ~AllZero(Vector3S)

\* KernelVector2G has returned a vector whose Euclidean norm is not 1
C28_Witness ==
  /\ Kernel2GReturned
  /\ ~kres.r.zero
  /\ Near(Norm1(Vector2G), One, One)
  /\ ~Near(NormSquared(Vector2G), One, One)

\* KernelVector3S has returned a unit vector from KernelVector3G_aux
\* with three non-zero entries
C28_Witness3S ==
  /\ Kernel3SReturned
  /\ kres.r.kdim = 1
  /\ \A k \in Idx3 : ~IsZero(Vector3S[k])
  /\ Near(NormSquared(Vector3S), One, One)

(***************************************************************************)
(* The divisions of the kernel                                             *)
(***************************************************************************)
\* the divisors of the divisions executed by the call
DivisorsOfCall ==
  CASE kcall.fn = "vec_normalize3" ->
         vec_normalize3_divisors(kcall.a[1], kcall.a[2], kcall.a[3])
    [] kcall.fn = "KernelVector2G" ->
         KernelVector2G_divisors(kcall.mode, kcall.a[1], kcall.a[2], kcall.a[3], kcall.a[4])
    [] kcall.fn = "KernelVector3S" ->
         KernelVector3S_divisors(kcall.mode, kcall.a[1], kcall.a[2], kcall.a[3],
                                 kcall.a[4], kcall.a[5], kcall.a[6])
    [] kcall.fn = "Reduce3S" ->
         Reduce3S_divisors(kcall.mode, kcall.a[7], kcall.a[8], kcall.a[9])
    [] OTHER -> {}

\* C30: no division of vec_normalize3, KernelVector2G, KernelVector3S with
\* KernelVector3G_aux inside, and Reduce3S has a divisor that is zero
C30_NoDivisionByZero ==
  kcall # NoKernel => (~kres.fault /\ \A x \in DivisorsOfCall : ~IsZero(x))

\* KernelVector3S has gone through the elimination of a column whose first entry is
\* zero, KernelVector2G and vec_normalize3
C30_Witness ==
  /\ Kernel3SReturned
  /\ kres.r.kdim = 1
  /\ IsZero(Pivoted3S.d1)
  /\ ~IsZero(Pivoted3S.c21)
  /\ Cardinality(DivisorsOfCall) >= 4

\* KernelVector2G on a matrix whose first column is zero
C30_Witness2G ==
  /\ Kernel2GReturned
  /\ ~kres.r.zero
  /\ IsZero(kcall.a[1])
  /\ IsZero(kcall.a[3])
  /\ DivisorsOfCall # {}

\* Reduce3S with z1 = -1 after the permutation, and with s = 0
C30_WitnessReduce ==
  /\ ReduceReturned
  /\ DivisorsOfCall # {}
  /\ \E x \in DivisorsOfCall : Lt(x, Zero)

C30_WitnessNormalize ==
  /\ kcall.fn = "vec_normalize3"
  /\ ~kres.fault
  /\ IsZero(kcall.a[1])
  /\ Cardinality(DivisorsOfCall) = 2

(***************************************************************************)
(* The entries of the matrix that CalcEigenvalues depends on               *)
(***************************************************************************)
\* the indices of the entries below the diagonal of a column-major matrix of order n
LowerIndices(n) ==
  {p[1] + n * p[2] : p \in {q \in (0..(n - 1)) \X (0..(n - 1)) : q[1] > q[2]}}

\* the value written below the diagonal, plus the index of the place: none of the
\* sums is an entry of an input
LowerValues == {7}

\* M with other entries below the diagonal, a different one in each place
LowerVariants(M) ==
  {[M EXCEPT !.data = [i \in DOMAIN M.data |->
                         IF i \in LowerIndices(M.h) THEN Flt(x + i) ELSE M.data[i]]] :
     x \in LowerValues}

\* C29: CalcEigenvalues depends only on the diagonal and on the entries above it
\* (d[0], d[2], d[3] for order 2; d[0], d[3], d[4], d[6], d[7], d[8] for order 3):
\* the call on a matrix that differs from the matrix of this call only below the
\* diagonal stores the same lambda and the same vec
C29_UpperOnly ==
  EigReturned =>
    \A L \in LowerVariants(mat) :
      \A r \in {CalcEigenvalues(L.h, Fetch(L, oob), lambda0, vec0)} :
         r.lambda = lambda /\ r.vec = vec

\* a call of order 3 with non-zero entries above the diagonal and eigenvectors that
\* are not the unit vectors, on a matrix whose variants differ from it in 3 places
C29_Witness ==
  /\ EigReturned3
  /\ \A i \in LowerIndices(3) : ~IsZero(mat.data[i])
  /\ \A L \in LowerVariants(mat) : \A i \in LowerIndices(3) : L.data[i] # mat.data[i]
  /\ \E k \in 0..8 : ~IsZero(vec[k]) /\ fabs(vec[k]) # One

\* a call of order 2
C29_WitnessOrder2 ==
  /\ EigReturned
  /\ mat.h = 2
  /\ LowerIndices(2) = {1}
  /\ ~IsZero(mat.data[2])
  /\ \A L \in LowerVariants(mat) : L.data[1] # L.data[2]

====
